---- MODULE Spec2Model ----
(***************************************************************************)
(* The three DOM scanners of the repository                                *)
(*   SimpleDOMScanner     src/computer-vision/spotify-config.js            *)
(*   RobustDOMScanner     src/computer-vision/SCANNER_COMPARISON.md        *)
(*   EfficientDOMScanner  src/unnamed/part_004                             *)
(* over a small live document: collection, visibility, selector            *)
(* generation, ranking, the result cache and its invalidation by the       *)
(* mutation observer.                                                      *)
(*                                                                         *)
(* Strings are sequences of units.  A unit is one character, or a run of   *)
(* letters written as one unit ("login", "button", "data-testid"); the     *)
(* punctuation that selector syntax gives a meaning to is always a unit    *)
(* of its own, so escaping and parsing work character by character where   *)
(* it matters.  The empty sequence is the empty string; an attribute that  *)
(* is absent reads as the empty string (the generators test attributes for *)
(* truthiness only, and no element of the model carries an attribute that  *)
(* is present but empty).                                                  *)
(***************************************************************************)
EXTENDS Integers, Sequences, FiniteSets, TLC

(***************************************************************************)
(* Bounds of the model                                                     *)
(***************************************************************************)
\* elements ever inserted into the document in one behaviour
MaxNodes == 2
\* the step of the clock, in ms
TickMs == 2500

(***************************************************************************)
(* Strings                                                                 *)
(***************************************************************************)
Digits == {"0", "1", "2", "3", "4", "5", "6", "7", "8", "9"}
IsDigit(c) == c \in Digits
IsNameUnit(c) ==
  LET \* units with a meaning in selector syntax, or that end an identifier
      Punct == {":", "\"", "\\", " ", "[", "]", "(", ")", "=", ".", "#", ">", ",", "*", "'"}
  IN
                 c \notin Punct /\ c \notin Digits /\ c # "-"

RECURSIVE Concat(_)
Concat(ss) == IF ss = <<>> THEN <<>> ELSE Head(ss) \o Concat(Tail(ss))

\* String.prototype.substring(0, n)
Substring0(s, n) == IF Len(s) <= n THEN s ELSE SubSeq(s, 1, n)

\* String.prototype.includes
Includes(s, sub) ==
  \E i \in 1..(Len(s) - Len(sub) + 1) : SubSeq(s, i, i + Len(sub) - 1) = sub

\* String.prototype.startsWith
StartsWith(s, pre) == Len(s) >= Len(pre) /\ SubSeq(s, 1, Len(pre)) = pre

\* String.prototype.trim (the only white space of the model is " ")
RECURSIVE TrimLeft(_)
TrimLeft(s) == IF s # <<>> /\ Head(s) = " " THEN TrimLeft(Tail(s)) ELSE s
RECURSIVE TrimRight(_)
TrimRight(s) ==
  IF s # <<>> /\ s[Len(s)] = " " THEN TrimRight(SubSeq(s, 1, Len(s) - 1)) ELSE s
Trim(s) == TrimRight(TrimLeft(s))

\* className.split(/\s+/).filter(c => c): the class tokens, in order
RECURSIVE SplitWs(_, _, _)
SplitWs(s, cur, out) ==
  IF s = <<>> THEN (IF cur = <<>> THEN out ELSE Append(out, cur))
  ELSE IF Head(s) = " "
       THEN SplitWs(Tail(s), <<>>, IF cur = <<>> THEN out ELSE Append(out, cur))
       ELSE SplitWs(Tail(s), Append(cur, Head(s)), out)
ClassTokens(cls) == SplitWs(cls, <<>>, <<>>)

SeqToSet(s) == {s[i] : i \in 1..Len(s)}

(***************************************************************************)
(* The document                                                            *)
(*                                                                         *)
(* doc is the sequence of the elements ever inserted under document.body,  *)
(* in document order; an element is its index (node identity), 0 is        *)
(* document.body.  Elements are appended at the end of the document order  *)
(* (appendChild on body or on an element of the last branch), alone or as  *)
(* a container with one child built before insertion; removing an element  *)
(* detaches its subtree (its parent becomes -1, null).  The documents of the model have no shadow roots, *)
(* no iframes, no framework click attributes (ng-click, data-action) and   *)
(* no aria-labelledby, title or tabindex attributes.                       *)
(***************************************************************************)
VARIABLES doc, pageLoading, mutationQueue

\* window.innerHeight, in px
innerHeight == 800

NoStr == <<>>
NoBox == [top |-> 0, bottom |-> 0, width |-> 0, height |-> 0]

El(tag) ==
  LET InView == [top |-> 100, bottom |-> 140, width |-> 80, height |-> 40]
  IN
  [tag |-> tag, id |-> NoStr, testid |-> NoStr, aria |-> NoStr, role |-> NoStr,
   name |-> NoStr, cls |-> NoStr, text |-> NoStr, href |-> NoStr,
   itype |-> NoStr, onclick |-> FALSE, pointer |-> FALSE, rect |-> InView,
   parent |-> 0, attached |-> TRUE]

\* <button>OK</button>
PlainButton == [El("button") EXCEPT !.text = <<"O", "K">>]
\* <button id="login:btn">OK</button>
ColonIdButton == [El("button") EXCEPT !.id = <<"login", ":", "btn">>, !.text = <<"O", "K">>]
\* <div></div>, a container that is not interactive
PlainDiv == El("div")

Templates ==
  LET \* <button style="display:none">OK</button>
      HiddenButton == [El("button") EXCEPT !.text = <<"O", "K">>, !.rect = NoBox]
  IN
  LET \* <div role="button">Go</div>
      RoleDiv == [El("div") EXCEPT !.role = <<"button">>, !.text = <<"G", "o">>]
  IN
  {PlainButton, ColonIdButton, RoleDiv, HiddenButton, PlainDiv}

\* the documents of pages that are built before the scanner is constructed
\* and do not change afterwards
Pages ==
  LET \* <button role="button" onclick="go()" class="btn">OK</button>
      MultiButton ==
        [El("button") EXCEPT !.role = <<"button">>, !.onclick = TRUE,
                             !.cls = <<"b", "t", "n">>, !.text = <<"O", "K">>]
      \* <a href="x">x</a>
      Anchor == [El("a") EXCEPT !.href = <<"x">>, !.text = <<"x">>]
      \* <button class="a:b">OK</button>
      ColonClassButton ==
        [El("button") EXCEPT !.cls = <<"a", ":", "b">>, !.text = <<"O", "K">>]
      \* <button id="save" data-testid="save-btn" aria-label="Save" name="save"
      \*         class="primary">OK</button>
      TestIdButton ==
        [El("button") EXCEPT !.id = <<"save">>, !.testid = <<"save", "-", "btn">>,
                             !.aria = <<"Save">>, !.name = <<"save">>,
                             !.cls = <<"p", "r", "i", "m", "a", "r", "y">>,
                             !.text = <<"O", "K">>]
  IN {<<PlainButton, ColonIdButton, PlainButton>>,
      <<MultiButton, PlainButton>>,
      <<PlainButton, [Anchor EXCEPT !.parent = 1]>>,
      <<PlainButton, ColonClassButton, PlainButton>>,
      <<TestIdButton, PlainButton>>}

Nodes == 1..Len(doc)
Attached == {n \in Nodes : doc[n].attached}
\* element.parentElement chain, nearest first (document.body excluded)
RECURSIVE Ancestors(_)
Ancestors(n) ==
  IF doc[n].parent <= 0 THEN <<>> ELSE <<doc[n].parent>> \o Ancestors(doc[n].parent)
\* the elements of a set, in document order
RECURSIVE InOrder(_, _)
InOrder(S, i) ==
  IF i > Len(doc) THEN <<>>
  ELSE (IF i \in S THEN <<i>> ELSE <<>>) \o InOrder(S, i + 1)
DocOrder(S) == InOrder(S, 1)
\* Array.from(parent.children).filter(child => child.tagName === el.tagName)
SameTagSiblings(n) ==
  DocOrder({m \in Nodes : doc[m].parent = doc[n].parent /\ doc[m].tag = doc[n].tag})
\* Array.prototype.indexOf, 1-based; 0 when absent
IndexOf(s, x) == IF \E i \in 1..Len(s) : s[i] = x
                 THEN CHOOSE i \in 1..Len(s) : s[i] = x /\ \A j \in 1..(i-1) : s[j] # x
                 ELSE 0

(***************************************************************************)
(* CSS.escape and the selector engine (document.querySelectorAll)          *)
(***************************************************************************)
\* CSS.escape(value), CSSOM "serialize an identifier"
\* the value as it stands: a selector built as `#${element.id}`, CSS.escape
\* left out (the code before the fix of SELECTOR_ESCAPE_FIX.md)
Unescaped(v) == v
RECURSIVE CssEscapeFrom(_, _)
CssEscapeFrom(v, i) ==
  IF i > Len(v) THEN <<>>
  ELSE LET c == v[i]
           e == IF IsDigit(c) /\ (i = 1 \/ (i = 2 /\ v[1] = "-"))
                  THEN <<"\\", "3", c, " ">>          \* code point 0x30 + c, as hex
                ELSE IF c = "-" /\ i = 1 /\ Len(v) = 1 THEN <<"\\", c>>
                ELSE IF IsNameUnit(c) \/ IsDigit(c) \/ c = "-" THEN <<c>>
                ELSE <<"\\", c>>
       IN e \o CssEscapeFrom(v, i + 1)
CssEscape(v) == CssEscapeFrom(v, 1)

\* A parsed selector is a sequence of compound selectors joined by the child
\* combinator; a compound is [tag, tests], a test is [k, a, v].

\* the run of hex digits (at most 6) at position i, as far as the model's
\* digits go (no letter unit of the model is a hex digit)
RECURSIVE HexRun(_, _, _)
HexRun(s, i, k) ==
  IF k = 0 \/ i > Len(s) \/ ~IsDigit(s[i]) THEN <<>>
  ELSE <<s[i]>> \o HexRun(s, i + 1, k - 1)
\* consume an escape at position i (s[i] is the backslash): [c, next]
ReadEscape(s, i) ==
  LET \* the character a hex escape stands for: 3d is the digit d
      HexChar(h1) == IF Len(h1) = 2 /\ h1[1] = "3" THEN h1[2] ELSE "?"
  IN
  LET h == HexRun(s, i + 1, 6) IN
  IF h # <<>>
    THEN LET j == i + 1 + Len(h) IN
         [c |-> HexChar(h), next |-> IF j <= Len(s) /\ s[j] = " " THEN j + 1 ELSE j]
    ELSE [c |-> s[i + 1], next |-> i + 2]

\* the rest of an identifier from position i: [val, next]
RECURSIVE ReadName(_, _, _)
ReadName(s, i, acc) ==
  IF i > Len(s) THEN [val |-> acc, next |-> i]
  ELSE IF s[i] = "\\" /\ i < Len(s)
    THEN LET Escaped(e) == ReadName(s, e.next, Append(acc, e.c)) IN Escaped(ReadEscape(s, i))
  ELSE IF IsNameUnit(s[i]) \/ IsDigit(s[i]) \/ s[i] = "-"
    THEN ReadName(s, i + 1, Append(acc, s[i]))
  ELSE [val |-> acc, next |-> i]
\* does an identifier start at position i (CSS Syntax: "would start an ident")
StartsIdent(s, i) ==
  /\ i <= Len(s)
  /\ \/ IsNameUnit(s[i])
     \/ s[i] = "\\" /\ i < Len(s)
     \/ /\ s[i] = "-" /\ i < Len(s)
        /\ (IsNameUnit(s[i+1]) \/ s[i+1] = "-" \/ (s[i+1] = "\\" /\ i + 1 < Len(s)))

\* the rest of a double-quoted string from position i (after the opening
\* quote): [val, next, closed]
RECURSIVE ReadString(_, _, _)
ReadString(s, i, acc) ==
  IF i > Len(s) THEN [val |-> acc, next |-> i, closed |-> FALSE]
  ELSE IF s[i] = "\"" THEN [val |-> acc, next |-> i + 1, closed |-> TRUE]
  ELSE IF s[i] = "\\" /\ i < Len(s)
    THEN LET Escaped(e) == ReadString(s, e.next, Append(acc, e.c)) IN Escaped(ReadEscape(s, i))
  ELSE ReadString(s, i + 1, Append(acc, s[i]))

\* the simple selectors of one compound from position i: [ok, tests, next]
RECURSIVE ReadTests(_, _, _)
ReadTests(s, i, acc) ==
  IF i > Len(s) THEN [ok |-> TRUE, tests |-> acc, next |-> i]
  ELSE IF s[i] \in {"#", "."} THEN
    IF ~StartsIdent(s, i + 1) THEN [ok |-> FALSE, tests |-> acc, next |-> i]
    ELSE LET Named(r) ==
               ReadTests(s, r.next,
                 Append(acc, [k |-> IF s[i] = "#" THEN "id" ELSE "class", a |-> "", v |-> r.val]))
         IN Named(ReadName(s, i + 1, <<>>))
  ELSE IF s[i] = "[" THEN
    \* [name="value"]
    IF ~(i + 3 <= Len(s) /\ IsNameUnit(s[i+1]) /\ s[i+2] = "=" /\ s[i+3] = "\"")
      THEN [ok |-> FALSE, tests |-> acc, next |-> i]
    ELSE LET Quoted(r) ==
               IF r.closed /\ r.next <= Len(s) /\ s[r.next] = "]"
                 THEN ReadTests(s, r.next + 1,
                        Append(acc, [k |-> "attr", a |-> s[i+1], v |-> r.val]))
                 ELSE [ok |-> FALSE, tests |-> acc, next |-> i]
         IN Quoted(ReadString(s, i + 4, <<>>))
  ELSE IF s[i] = ":" THEN
    \* the only pseudo-class the engine is asked for is :nth-of-type(<digit>)
    IF i + 4 <= Len(s) /\ s[i+1] = "nth-of-type" /\ s[i+2] = "(" /\ IsDigit(s[i+3])
       /\ s[i+4] = ")"
      THEN ReadTests(s, i + 5,
             Append(acc, [k |-> "nth", a |-> "", v |-> <<s[i+3]>>]))
      ELSE [ok |-> FALSE, tests |-> acc, next |-> i]
  ELSE [ok |-> TRUE, tests |-> acc, next |-> i]

\* one compound selector from position i: [ok, tag, tests, next]
ReadCompound(s, i) ==
  LET Compound(t, r) ==
        [ok |-> r.ok /\ (t.val # <<>> \/ r.tests # <<>>),
         tag |-> t.val, tests |-> r.tests, next |-> r.next]
      Tests(t) == Compound(t, ReadTests(s, t.next, <<>>))
  IN Tests(IF StartsIdent(s, i) THEN ReadName(s, i, <<>>)
           ELSE [val |-> <<>>, next |-> i])

\* the whole selector: [ok, sel], sel the sequence of compounds; ok is FALSE
\* where the engine throws a SyntaxError
RECURSIVE ReadSelector(_, _, _)
ReadSelector(s, i, acc) ==
  LET After(c, acc2) ==
        IF ~c.ok THEN [ok |-> FALSE, sel |-> <<>>]
        ELSE IF c.next > Len(s) THEN [ok |-> TRUE, sel |-> acc2]
        ELSE IF c.next + 2 <= Len(s) /\ s[c.next] = " " /\ s[c.next+1] = ">"
                /\ s[c.next+2] = " "
          THEN ReadSelector(s, c.next + 3, acc2)
        ELSE [ok |-> FALSE, sel |-> <<>>]
      Read(c) == After(c, Append(acc, [tag |-> c.tag, tests |-> c.tests]))
  IN Read(ReadCompound(s, i))
ParseSelector(s) ==
  IF s = <<>> THEN [ok |-> FALSE, sel |-> <<>>] ELSE ReadSelector(s, 1, <<>>)

DigitValue(d) == CHOOSE k \in 0..9 : ToString(k) = d
\* the attribute of an element that a selector names
Attr(n, a) ==
  CASE a = "data-testid" -> doc[n].testid
    [] a = "aria-label" -> doc[n].aria
    [] a = "role" -> doc[n].role
    [] a = "name" -> doc[n].name
    [] a = "href" -> doc[n].href
    [] a = "id" -> doc[n].id
    [] a = "class" -> doc[n].cls
    [] OTHER -> NoStr
MatchesTest(n, t) ==
  CASE t.k = "id" -> doc[n].id # NoStr /\ doc[n].id = t.v
    [] t.k = "class" -> t.v \in SeqToSet(ClassTokens(doc[n].cls))
    [] t.k = "attr" -> Attr(n, t.a) # NoStr /\ Attr(n, t.a) = t.v
    [] t.k = "nth" -> IndexOf(SameTagSiblings(n), n) = DigitValue(t.v[1])
MatchesCompound(n, c) ==
  /\ c.tag = <<>> \/ c.tag = <<doc[n].tag>>
  /\ \A k \in 1..Len(c.tests) : MatchesTest(n, c.tests[k])
\* n matches compounds 1..k, compound k on n itself, the others up the
\* parent chain
RECURSIVE MatchesUpTo(_, _, _)
MatchesUpTo(n, sel, k) ==
  /\ MatchesCompound(n, sel[k])
  /\ k = 1 \/ (doc[n].parent > 0 /\ MatchesUpTo(doc[n].parent, sel, k - 1))
\* document.querySelectorAll(s): [ok, nodes]; ok is FALSE where it throws a
\* SyntaxError, nodes are the matches in document order
QuerySelectorAll(s) ==
  LET Matches(p) ==
        IF ~p.ok THEN [ok |-> FALSE, nodes |-> <<>>]
        ELSE [ok |-> TRUE,
              nodes |-> DocOrder({n \in Attached : MatchesUpTo(n, p.sel, Len(p.sel))})]
  IN Matches(ParseSelector(s))

\* element.textContent: the text of the element and of its descendants
RECURSIVE TextOfFrom(_, _)
TextOfFrom(n, m) ==
  IF m > Len(doc) THEN <<>>
  ELSE (IF m = n \/ n \in SeqToSet(Ancestors(m)) THEN doc[m].text ELSE <<>>)
       \o TextOfFrom(n, m + 1)
TextContent(n) == TextOfFrom(n, n)

StaticMatches(n, sel) ==
  CASE sel = "button" -> doc[n].tag = "button"
    [] sel = "a[href]" -> doc[n].tag = "a" /\ doc[n].href # NoStr
    [] sel = "input:not([type=\"hidden\"])" ->
         doc[n].tag = "input" /\ doc[n].itype # <<"hidden">>
    [] sel = "select" -> doc[n].tag = "select"
    [] sel = "textarea" -> doc[n].tag = "textarea"
    [] sel = "[role=\"button\"]" -> doc[n].role = <<"button">>
    [] sel = "[role=\"link\"]" -> doc[n].role = <<"link">>
    [] sel = "[role=\"tab\"]" -> doc[n].role = <<"tab">>
    [] sel = "[role=\"menuitem\"]" -> doc[n].role = <<"menuitem">>
    [] sel = "[role=\"option\"]" -> doc[n].role = <<"option">>
    [] sel = "[role=\"textbox\"]" -> doc[n].role = <<"textbox">>
    [] sel = "[onclick]" -> doc[n].onclick
    [] sel = "[class*=\"btn\"]" -> Includes(doc[n].cls, <<"b", "t", "n">>)
    [] sel = "[class*=\"button\"]" -> Includes(doc[n].cls, <<"b", "u", "t", "t", "o", "n">>)
    [] sel = "[class*=\"link\"]" -> Includes(doc[n].cls, <<"l", "i", "n", "k">>)
    [] sel = "[class*=\"nav\"]" -> Includes(doc[n].cls, <<"n", "a", "v">>)
    [] sel = "[class*=\"menu\"]" -> Includes(doc[n].cls, <<"m", "e", "n", "u">>)
    [] sel = "[class*=\"tab\"]" -> Includes(doc[n].cls, <<"t", "a", "b">>)
    [] sel = "[class*=\"cta\"]" -> Includes(doc[n].cls, <<"c", "t", "a">>)
    [] sel = "[class*=\"clickable\"]" ->
         Includes(doc[n].cls, <<"c", "l", "i", "c", "k", "a", "b", "l", "e">>)
    [] sel = "[class*=\"action\"]" -> Includes(doc[n].cls, <<"a", "c", "t", "i", "o", "n">>)
    [] sel = "[class*=\"submit\"]" -> Includes(doc[n].cls, <<"s", "u", "b", "m", "i", "t">>)
    [] sel = "[data-testid]" -> doc[n].testid # NoStr
    [] sel = "[aria-label]" -> doc[n].aria # NoStr
    [] OTHER -> FALSE          \* [ng-click], [data-action], [aria-labelledby]
\* document.querySelectorAll of one fixed selector, or of a selector list
QueryStatic(sels) ==
  DocOrder({n \in Attached : \E k \in 1..Len(sels) : StaticMatches(n, sels[k])})

(***************************************************************************)
(* Calls and their options                                                 *)
(***************************************************************************)
\* scanner names the class whose instance the page holds and cache is its
\* field; cacheAge is Date.now() - this.cacheTime (this.lastScanTimestamp in
\* EfficientDOMScanner), followed up to the cache lifetime, beyond which
\* every age reads the same; call is the scan call in flight, if any, and
\* call.waited is Date.now() minus the time its timer was set, followed up
\* to the timeout
VARIABLES scanner, cache, cacheAge, observingMutations, observers, ret, call

\* options.maxElements when the caller passes none
Undefined == 0 - 1
\* x || d
OrDefault(x, d) == IF x = Undefined \/ x = 0 THEN d ELSE x

NoOptions ==
  [maxElements |-> Undefined, useCache |-> TRUE, priority |-> "balanced",
   includeInvisible |-> FALSE, includeHidden |-> FALSE]
\* the option objects the callers of the model pass: those that set an
\* option the scanner reads
BasicOptions ==
  {NoOptions,
   [NoOptions EXCEPT !.maxElements = 0],
   [NoOptions EXCEPT !.maxElements = 1],
   [NoOptions EXCEPT !.useCache = FALSE]}
SimpleOptions == BasicOptions
RobustOptions == BasicOptions \cup {[NoOptions EXCEPT !.includeHidden = TRUE]}
EfficientOptions ==
  BasicOptions \cup
  {[NoOptions EXCEPT !.includeInvisible = TRUE],
   [NoOptions EXCEPT !.priority = "speed"],
   [NoOptions EXCEPT !.priority = "accuracy"]}

\* ret is what the scan call that completed in the last step returned to its
\* caller: [some, val, opts, hit]; NoRet after a step that completes no call
NoRet == [some |-> FALSE, val |-> <<>>, opts |-> NoOptions, hit |-> FALSE]
Returned(val, opts, hit) == [some |-> TRUE, val |-> val, opts |-> opts, hit |-> hit]

\* this.cache of SimpleDOMScanner and RobustDOMScanner: null, or an array
\* seen and found are history, not fields of the scanner: the number of nodes
\* the document had had when the scan that filled the cache was called, and
\* the candidate elements of that scan in the order it discovered them
NullCache == [null |-> TRUE, items |-> <<>>, seen |-> 0, found |-> <<>>]
ArrayCache(items, seen, found) ==
  [null |-> FALSE, items |-> items, seen |-> seen, found |-> found]

(***************************************************************************)
(* SimpleDOMScanner                                                        *)
(***************************************************************************)
SimpleCacheLifetime == 3000
SimpleDefaultMaxElements == 100

\* the push without the test of the seen set: every found element that
\* passes the other tests is pushed again
RECURSIVE PushAll(_, _, _, _)
PushAll(found, elements, max, ok) ==
  IF found = <<>> THEN elements
  ELSE PushAll(Tail(found),
         IF Len(elements) < max /\ Head(found) \in ok
           THEN Append(elements, Head(found)) ELSE elements,
         max, ok)
\* found.forEach(el => { if (!seen.has(el) && elements.length < max && ok(el)) ... })
\* ok is the set of the elements that pass the extra test of the caller
RECURSIVE PushFound(_, _, _, _)
PushFound(found, elements, max, ok) ==
  IF found = <<>> THEN elements
  ELSE PushFound(Tail(found),
         IF Head(found) \notin SeqToSet(elements) /\ Len(elements) < max
            /\ Head(found) \in ok
           THEN Append(elements, Head(found)) ELSE elements,
         max, ok)
\* for (const selector of selectors) { try { ... } catch (e) { } }
RECURSIVE CollectSelectors(_, _, _, _)
CollectSelectors(sels, elements, max, ok) ==
  LET \* the fixed selectors the scanners collect candidates with, as predicates
      \* on an element ('[v-on:click]' is no valid selector: querySelectorAll
      \* throws on it)
      StaticThrows(sel) == sel = "[v-on:click]"
  IN
  IF sels = <<>> THEN elements
  ELSE CollectSelectors(Tail(sels),
         IF StaticThrows(Head(sels)) THEN elements
         ELSE PushFound(QueryStatic(<<Head(sels)>>), elements, max, ok),
         max, ok)

SimpleSelectors ==
  <<"button", "a[href]", "input:not([type=\"hidden\"])", "select", "textarea",
    "[role=\"button\"]", "[role=\"link\"]", "[role=\"tab\"]", "[onclick]">>

getImpliedRole(tagName) ==
  CASE tagName = "button" -> <<"button">>
    [] tagName = "a" -> <<"link">>
    [] tagName = "input" -> <<"textbox">>
    [] tagName = "select" -> <<"listbox">>
    [] tagName = "textarea" -> <<"textbox">>
    [] OTHER -> NoStr

\* `${tag}:nth-of-type(${index})`
NthOfType(n) ==
  <<":", "nth-of-type", "(", ToString(IndexOf(SameTagSiblings(n), n)), ")">>
AttrSelector(a, v) == <<"[", a, "=", "\"">> \o v \o <<"\"", "]">>
\* document.querySelectorAll(sel).length === 1, inside try/catch
UniqueInDocument(sel) ==
  LET One(q) == q.ok /\ Len(q.nodes) = 1 IN One(QuerySelectorAll(sel))

SimpleGenerateSelector(n) ==
  LET e == doc[n]
      idSel == <<"#">> \o CssEscape(e.id)
      classes == ClassTokens(e.cls)
      classSel == <<e.tag, ".">> \o CssEscape(classes[1])
  IN IF e.id # NoStr /\ UniqueInDocument(idSel) THEN idSel
     ELSE IF e.testid # NoStr THEN AttrSelector("data-testid", CssEscape(e.testid))
     ELSE IF e.aria # NoStr /\ Len(e.aria) < 50
       THEN <<e.tag>> \o AttrSelector("aria-label", CssEscape(e.aria))
     ELSE IF e.name # NoStr THEN <<e.tag>> \o AttrSelector("name", CssEscape(e.name))
     ELSE IF classes # <<>> /\ UniqueInDocument(classSel) THEN classSel
     ELSE IF e.parent >= 0 THEN <<e.tag>> \o NthOfType(n)
     ELSE <<e.tag>>

\* generateId(element, index) of SimpleDOMScanner and RobustDOMScanner
generateId(n, index) ==
  LET e == doc[n] IN
  IF e.id # NoStr THEN <<"id-">> \o e.id
  ELSE IF e.testid # NoStr THEN <<"testid-">> \o e.testid
  ELSE IF e.name # NoStr THEN <<"name-">> \o e.name
  ELSE <<"elem-", ToString(index)>>

\* the text of a record: placeholder/value for inputs (none in the model's
\* documents), else textContent.trim().substring(0, 100)
ElementText(n) ==
  IF doc[n].tag \in {"input", "textarea"} THEN NoStr
  ELSE Substring0(Trim(TextContent(n)), 100)
\* element.getBoundingClientRect(): all zero for an element out of the document
Rect(n) == IF doc[n].attached THEN doc[n].rect ELSE NoBox
Position(n) == [y |-> Rect(n).top, width |-> Rect(n).width, height |-> Rect(n).height]

SimpleIsVisible(n) ==
  LET r == Rect(n) IN
  r.width > 0 /\ r.height > 0 /\ r.top < innerHeight /\ r.bottom > 0

\* extractElementData(element, index): <<>> for null, else <<record>>
SimpleExtractElementData(n, index) ==
  IF ~SimpleIsVisible(n) THEN <<>>
  ELSE << [id |-> generateId(n, index),
           selector |-> SimpleGenerateSelector(n),
           text |-> ElementText(n),
           type |-> doc[n].tag,
           role |-> IF doc[n].role # NoStr THEN doc[n].role
                    ELSE getImpliedRole(doc[n].tag),
           visible |-> TRUE,
           position |-> Position(n),
           el |-> n] >>

SimpleCollect(options) ==
  CollectSelectors(SimpleSelectors, <<>>,
                   OrDefault(options.maxElements, SimpleDefaultMaxElements), Nodes)
SimpleResults(options) ==
  LET \* elements.map((el, index) => this.extractElementData(el, index))
      \*         .filter(data => data !== null ...)
      SimpleMapExtract(elements) ==
        Concat([i \in 1..Len(elements) |-> SimpleExtractElementData(elements[i], i - 1)])
  IN
  SelectSeq(SimpleMapExtract(SimpleCollect(options)),
            LAMBDA r : r.visible)

(***************************************************************************)
(* RobustDOMScanner                                                        *)
(***************************************************************************)
RobustCacheLifetime == 2000
RobustDefaultMaxElements == 150
\* the argument of waitForDynamicContent, in ms
RobustWaitTimeout == 1000

scanVisibleDOM(maxElements) ==
  LET RobustActionClasses ==
        <<"[class*=\"btn\"]", "[class*=\"button\"]", "[class*=\"link\"]",
          "[class*=\"clickable\"]", "[class*=\"action\"]", "[class*=\"submit\"]",
          "[class*=\"cta\"]">>
  IN
  LET RobustInteractiveSelectors ==
        <<"button", "a[href]", "input:not([type=\"hidden\"])", "select", "textarea",
          "[role=\"button\"]", "[role=\"link\"]", "[role=\"tab\"]", "[role=\"menuitem\"]",
          "[role=\"option\"]", "[onclick]", "[ng-click]", "[v-on:click]", "[data-action]">>
  IN
  LET looksInteractive(n1) ==
        \/ doc[n1].onclick
        \/ doc[n1].pointer
        \/ doc[n1].role \in {<<"button">>, <<"link">>, <<"tab">>, <<"menuitem">>}
  IN
  CollectSelectors(RobustActionClasses,
    CollectSelectors(RobustInteractiveSelectors, <<>>, maxElements, Nodes),
    maxElements, {n \in Nodes : looksInteractive(n)})

\* the documents of the model have no shadow roots and no iframes
scanShadowDOM == <<>>
scanIframes == <<>>

RECURSIVE deduplicateElements(_)
deduplicateElements(elements) ==
  IF elements = <<>> THEN <<>>
  ELSE LET rest == deduplicateElements(SubSeq(elements, 1, Len(elements) - 1))
           last == elements[Len(elements)]
       IN IF last \in SeqToSet(rest) THEN rest ELSE Append(rest, last)

\* document.readyState === 'loading', or a loading indicator is in the page
isPageStillLoading == pageLoading

AllUnits(s, S) == \A i \in 1..Len(s) : s[i] \in S
\* the number of digits a string ends with
RECURSIVE TrailingDigits(_)
TrailingDigits(s) ==
  IF s # <<>> /\ IsDigit(s[Len(s)])
    THEN 1 + TrailingDigits(SubSeq(s, 1, Len(s) - 1)) ELSE 0
isStableId(id) ==
  LET HexUnits == Digits \cup {"a", "b", "c", "d", "e", "f"}
  IN
  LET d == TrailingDigits(id)
      stem == SubSeq(id, 1, Len(id) - d)
  IN \* /^(react|ember|vue|ng)-/
     /\ ~(Len(id) >= 2 /\ id[1] \in {"react", "ember", "vue", "ng"} /\ id[2] = "-")
     \* /^[a-z]+-\d{3,}$/
     /\ ~(d >= 3 /\ Len(stem) >= 2 /\ stem[Len(stem)] = "-"
          /\ AllUnits(SubSeq(stem, 1, Len(stem) - 1), {c \in SeqToSet(stem) : IsNameUnit(c)}))
     \* /^[0-9a-f]{8,}$/
     /\ ~(Len(id) >= 8 /\ AllUnits(id, HexUnits))

isStableClass(className) ==
  LET AllAlnum(s1) == \A i \in 1..Len(s1) : IsNameUnit(s1[i]) \/ IsDigit(s1[i])
  IN
  LET d == TrailingDigits(className)
      stem == SubSeq(className, 1, Len(className) - d)
      rest(k) == SubSeq(className, k + 1, Len(className))
  IN \* /^css-[a-z0-9]+$/i
     /\ ~(StartsWith(className, <<"c", "s", "s", "-">>) /\ rest(4) # <<>> /\ AllAlnum(rest(4)))
     \* /^_[a-z0-9]{6,}$/i
     /\ ~(StartsWith(className, <<"_">>) /\ Len(rest(1)) >= 6
          /\ AllUnits(rest(1), {c \in SeqToSet(rest(1)) : c # "_" /\ (IsNameUnit(c) \/ IsDigit(c))}))
     \* /^sc-[a-z0-9]+$/i
     /\ ~(StartsWith(className, <<"s", "c", "-">>) /\ rest(3) # <<>> /\ AllAlnum(rest(3)))
     \* /^[a-z]{1,2}\d{3,}$/i
     /\ ~(d >= 3 /\ Len(stem) \in {1, 2}
          /\ AllUnits(stem, {c \in SeqToSet(stem) : c # "_" /\ IsNameUnit(c)}))

generateRobustSelector(n) ==
  LET e == doc[n]
      idSel == <<"#">> \o CssEscape(e.id)
      classes == SelectSeq(ClassTokens(e.cls), isStableClass)
      classSel == <<e.tag, ".">> \o CssEscape(classes[1])
  IN IF e.testid # NoStr THEN AttrSelector("data-testid", CssEscape(e.testid))
     ELSE IF e.id # NoStr /\ isStableId(e.id) /\ UniqueInDocument(idSel) THEN idSel
     ELSE IF e.aria # NoStr /\ Len(e.aria) < 50
       THEN <<e.tag>> \o AttrSelector("aria-label", CssEscape(e.aria))
     ELSE IF e.name # NoStr THEN <<e.tag>> \o AttrSelector("name", CssEscape(e.name))
     ELSE IF classes # <<>> /\ UniqueInDocument(classSel) THEN classSel
     ELSE IF e.tag = "a" /\ e.href # NoStr /\ ~StartsWith(e.href, <<"javascript", ":">>)
       THEN <<"a">> \o AttrSelector("href", CssEscape(e.href))
     ELSE <<e.tag>>

RobustExtractElementData(n, index) ==
  LET RobustIsVisible ==
        LET r == Rect(n) IN
        r.width > 0 /\ r.height > 0 /\ r.top < innerHeight + 500 /\ r.bottom > 0 - 500
  IN
  << [id |-> generateId(n, index),
      selector |-> generateRobustSelector(n),
      text |-> IF ElementText(n) # NoStr THEN ElementText(n) ELSE doc[n].aria,
      type |-> doc[n].tag,
      role |-> IF doc[n].role # NoStr THEN doc[n].role ELSE getImpliedRole(doc[n].tag),
      visible |-> RobustIsVisible,
      position |-> Position(n),
      el |-> n] >>

\* scan() from "Strategy 3" to the return, for the candidates found so far
RobustCandidates(elements, options) ==
  Substring0(deduplicateElements(elements \o scanShadowDOM \o scanIframes),
             OrDefault(options.maxElements, RobustDefaultMaxElements))
RobustResults(elements, options) ==
  LET \* .map((el, index) => this.extractElementData(el, index))
      \* .filter(data => data !== null)
      RobustMapExtract(elements1) ==
        Concat([i \in 1..Len(elements1) |-> RobustExtractElementData(elements1[i], i - 1)])
  IN
  LET maxElements == OrDefault(options.maxElements, RobustDefaultMaxElements)
      all == deduplicateElements(
               elements \o scanShadowDOM \o scanIframes)
      results == RobustMapExtract(Substring0(all, maxElements))
  IN IF options.includeHidden THEN results
     ELSE SelectSeq(results, LAMBDA r : r.visible)

(***************************************************************************)
(* EfficientDOMScanner                                                     *)
(***************************************************************************)
EfficientCacheLifetime == 5000
EfficientDefaultMaxElements == 100
\* the safety timeout of batchVisibilityCheck, in ms
VisibilityTimeout == 1000
\* chunkSize of processElements: 50 in the source, scaled down with the
\* document so that a scan of the model's documents still takes two chunks
chunkSize == 1

\* config = { maxElements: options.maxElements || 100, ..., ...options }:
\* the spread puts every key the caller passed back over its default
EffConfig(options) ==
  [options EXCEPT !.maxElements =
     IF options.maxElements = Undefined THEN EfficientDefaultMaxElements
     ELSE options.maxElements]

isInteractiveElement(n) ==
  \/ doc[n].tag \in {"button", "a", "input", "select", "textarea", "details", "summary"}
  \/ doc[n].onclick
  \/ doc[n].role \in {<<"button">>, <<"link">>, <<"tab">>, <<"menuitem">>, <<"option">>,
                      <<"switch">>, <<"checkbox">>, <<"radio">>}

\* classList.toLowerCase().includes(p) for one of the patterns, or a
\* tabindex (none in the model) or aria-label attribute
isLikelyInteractive(n) ==
  \/ \E pat \in {<<"b", "t", "n">>, <<"b", "u", "t", "t", "o", "n">>, <<"l", "i", "n", "k">>,
                  <<"c", "l", "i", "c", "k", "a", "b", "l", "e">>,
                  <<"a", "c", "t", "i", "o", "n">>, <<"c", "t", "a">>} :
        Includes(doc[n].cls, pat)
  \/ doc[n].aria # NoStr

Descendants(n) == {m \in Nodes : n \in SeqToSet(Ancestors(m))}
\* the TreeWalker of fastScan: the accepted elements under document.body in
\* document order, at most maxElements of them
fastScan(config) ==
  LET accepted == DocOrder({n \in Attached : isInteractiveElement(n)})
  IN IF config.maxElements <= 0 THEN <<>> ELSE Substring0(accepted, config.maxElements)

AccurateSemanticSelectors ==
  <<"button", "a[href]", "input:not([type=\"hidden\"])", "select", "textarea",
    "[role=\"button\"]", "[role=\"link\"]", "[role=\"tab\"]", "[role=\"menuitem\"]",
    "[role=\"textbox\"]", "[onclick]">>
AccuratePatterns ==
  <<"[class*=\"btn\"]", "[class*=\"button\"]", "[class*=\"link\"]", "[class*=\"nav\"]",
    "[class*=\"menu\"]", "[class*=\"tab\"]", "[class*=\"cta\"]">>
\* a Set in insertion order; the cap is applied by the final slice only
accurateScan(config) ==
  LET hasInteractiveChild(n1) ==
        \E m \in Descendants(n1) :
          \/ doc[m].tag \in {"button", "a", "input", "select", "textarea"}
          \/ doc[m].role = <<"button">>
  IN
  LET noCap == MaxNodes + 1
      s1 == CollectSelectors(AccurateSemanticSelectors, <<>>, noCap, Nodes)
      s2 == PushFound(QueryStatic(<<"[aria-label]", "[aria-labelledby]", "[data-testid]">>),
                      s1, noCap,
                      {n \in Nodes : isInteractiveElement(n) \/ hasInteractiveChild(n)})
      s3 == CollectSelectors(AccuratePatterns, s2, noCap,
                             {n \in Nodes : isLikelyInteractive(n)})
  IN Substring0(s3, config.maxElements)

balancedScan(config) ==
  LET primary == QueryStatic(<<"button", "a[href]", "input:not([type=\"hidden\"])",
                               "select", "textarea", "[role=\"button\"]",
                               "[role=\"link\"]">>)
      secondary == QueryStatic(<<"[onclick]", "[class*=\"btn\"]", "[class*=\"button\"]",
                                 "[role=\"tab\"]", "[role=\"menuitem\"]">>)
      \* elements.length < config.maxElements * 0.7
      elements == IF 10 * Len(primary) < 7 * config.maxElements
                    THEN PushFound(secondary, primary, MaxNodes + 1,
                                   {n \in Nodes : isLikelyInteractive(n)})
                    ELSE primary
  IN Substring0(elements, config.maxElements)

\* direct text nodes, then the text of the element children, maxDepth deep
RECURSIVE extractTextEfficiently(_, _, _)
extractTextEfficiently(n, maxLength, maxDepth) ==
  IF maxDepth = 0 THEN NoStr
  ELSE IF doc[n].tag \in {"input", "textarea"} THEN NoStr
  ELSE LET kids == DocOrder({m \in Nodes : doc[m].parent = n})
           Step[k \in 0..Len(kids)] ==
             IF k = 0 THEN doc[n].text
             ELSE IF Len(Step[k-1]) >= maxLength \/ maxDepth <= 1 THEN Step[k-1]
             ELSE Step[k-1] \o
                  extractTextEfficiently(kids[k], maxLength - Len(Step[k-1]), maxDepth - 1)
       IN Substring0(Trim(Step[Len(kids)]), IF maxLength < 0 THEN 0 ELSE maxLength)

\* path.join(' > ')
RECURSIVE JoinPath(_)
JoinPath(path) ==
  IF Len(path) = 1 THEN path[1]
  ELSE path[1] \o <<" ", ">", " ">> \o JoinPath(Tail(path))

RECURSIVE NthChildPath(_, _)
NthChildPath(current, path) ==
  IF current <= 0 THEN path
  ELSE IF doc[current].id # NoStr THEN <<(<<"#">> \o doc[current].id)>> \o path
  ELSE LET parent == doc[current].parent
           selector == IF parent >= 0 /\ Len(SameTagSiblings(current)) > 1
                         THEN <<doc[current].tag>> \o NthOfType(current)
                         ELSE <<doc[current].tag>>
       IN NthChildPath(parent, <<selector>> \o path)
\* generateOptimalSelector(element): [throws, selector]; it throws where the
\* uniqueness test of rule 5 hands querySelectorAll an invalid selector
generateOptimalSelector(n) ==
  LET getAccessibleName ==
        IF doc[n].aria # NoStr THEN doc[n].aria
        ELSE Substring0(Trim(TextContent(n)), 50)
  IN
  LET getNthChildSelector == JoinPath(NthChildPath(n, <<>>))
  IN
  LET \* /^[a-zA-Z][\w-]*$/
      IsPlainId(id) ==
        /\ id # NoStr
        /\ IsNameUnit(id[1]) /\ id[1] # "_"
        /\ \A i \in 2..Len(id) : IsNameUnit(id[i]) \/ IsDigit(id[i]) \/ id[i] = "-"
  IN
  LET e == doc[n]
      classes == SelectSeq(ClassTokens(e.cls),
                   LAMBDA c : ~StartsWith(c, <<"n", "g", "-">>) /\ ~StartsWith(c, <<"v", "-">>)
                              /\ ~StartsWith(c, <<"_">>))
      classSel == <<e.tag>> \o Concat([k \in 1..Len(classes) |-> <<".">> \o classes[k]])
      useClasses == e.cls # NoStr /\ Len(classes) > 0 /\ Len(classes) <= 3
      name == getAccessibleName
      Sel(x) == [throws |-> FALSE, selector |-> x]
  IN IF e.testid # NoStr THEN Sel(AttrSelector("data-testid", e.testid))
     ELSE IF e.id # NoStr /\ IsPlainId(e.id) THEN Sel(<<"#">> \o e.id)
     ELSE IF e.aria # NoStr THEN Sel(<<e.tag>> \o AttrSelector("aria-label", e.aria))
     ELSE IF e.role # NoStr
       THEN IF name # NoStr
              THEN Sel(AttrSelector("role", e.role) \o AttrSelector("aria-label", name))
              ELSE Sel(AttrSelector("role", e.role))
     ELSE IF useClasses /\ ~QuerySelectorAll(classSel).ok
       THEN [throws |-> TRUE, selector |-> NoStr]
     ELSE IF useClasses /\ Len(QuerySelectorAll(classSel).nodes) = 1 THEN Sel(classSel)
     ELSE Sel(getNthChildSelector)

inferRole(n) == getImpliedRole(doc[n].tag)

calculatePriority(n, tagName, role) ==
  LET isNestedInteractive ==
        \E k \in 1..Len(Ancestors(n)) : isInteractiveElement(Ancestors(n)[k])
  IN
  LET tagScore == CASE tagName = "button" -> 10
                    [] tagName \in {"a", "input"} -> 9
                    [] tagName \in {"select", "textarea"} -> 8
                    [] tagName = "form" -> 7
                    [] OTHER -> 3
      classList == SeqToSet(ClassTokens(doc[n].cls))
      score == tagScore
               + (IF role # NoStr THEN 3 ELSE 0)
               + (IF doc[n].testid # NoStr THEN 5 ELSE 0)
               + (IF doc[n].aria # NoStr THEN 3 ELSE 0)
               + (IF <<"p", "r", "i", "m", "a", "r", "y">> \in classList
                     \/ <<"b", "t", "n", "-", "p", "r", "i", "m", "a", "r", "y">> \in classList
                    THEN 4 ELSE 0)
               + (IF <<"c", "t", "a">> \in classList
                     \/ <<"c", "a", "l", "l", "-", "t", "o", "-", "a", "c", "t", "i", "o", "n">>
                          \in classList
                    THEN 4 ELSE 0)
               - (IF isNestedInteractive THEN 2 ELSE 0)
  IN IF score < 0 THEN 0 ELSE score

\* elements.sort((a, b) => b.priority - a.priority): Array.prototype.sort is
\* stable, equal priorities keep their order
RECURSIVE prioritizeElements(_)
prioritizeElements(elements) ==
  IF elements = <<>> THEN <<>>
  ELSE LET rest == prioritizeElements(SubSeq(elements, 1, Len(elements) - 1))
           x == elements[Len(elements)]
           k == Cardinality({i \in 1..Len(rest) : rest[i].priority >= x.priority})
       IN SubSeq(rest, 1, k) \o <<x>> \o SubSeq(rest, k + 1, Len(rest))

CharCode(c) ==
  LET Lower == <<"a", "b", "c", "d", "e", "f", "g", "h", "i", "j", "k", "l", "m",
                 "n", "o", "p", "q", "r", "s", "t", "u", "v", "w", "x", "y", "z">>
  IN
  LET \* String.prototype.charCodeAt for the characters of the model
      Upper == <<"A", "B", "C", "D", "E", "F", "G", "H", "I", "J", "K", "L", "M",
                 "N", "O", "P", "Q", "R", "S", "T", "U", "V", "W", "X", "Y", "Z">>
  IN
  IF IndexOf(Upper, c) > 0 THEN 64 + IndexOf(Upper, c)
  ELSE IF IndexOf(Lower, c) > 0 THEN 96 + IndexOf(Lower, c)
  ELSE IF IsDigit(c) THEN 48 + DigitValue(c)
  ELSE CASE c = " " -> 32 [] c = "\"" -> 34 [] c = "-" -> 45 [] c = ":" -> 58
         [] c = "_" -> 95 [] OTHER -> 63
\* simpleHash(str): hash = ((hash << 5) - hash) + char, kept to 32 bits, over
\* the characters; the 32-bit value is held as two 16-bit halves [hi, lo]
RECURSIVE HashFrom(_, _, _)
HashFrom(str, i, h) ==
  IF i > Len(str) THEN h
  ELSE LET lo == h.lo * 31 + CharCode(str[i])
           hi == h.hi * 31 + (lo \div 65536)
       IN HashFrom(str, i + 1, [hi |-> hi % 65536, lo |-> lo % 65536])
generateElementId(n) ==
  LET \* Math.abs(hash).toString(36): the absolute value of the signed 32-bit
      \* number, written here by its two halves instead of in base 36
      simpleHash(str) ==
        LET h == HashFrom(str, 1, [hi |-> 0, lo |-> 0])
            a == IF h.hi < 32768 THEN h
                 ELSE [hi |-> 65535 - h.hi + (IF h.lo = 0 THEN 1 ELSE 0),
                       lo |-> (65536 - h.lo) % 65536]
        IN <<ToString(a.hi), "_", ToString(a.lo)>>
  IN
  LET \* element.tagName, character by character
      TagName(tag) ==
        CASE tag = "button" -> <<"B", "U", "T", "T", "O", "N">>
          [] tag = "div" -> <<"D", "I", "V">>
          [] tag = "a" -> <<"A">>
          [] tag = "input" -> <<"I", "N", "P", "U", "T">>
          [] tag = "select" -> <<"S", "E", "L", "E", "C", "T">>
          [] tag = "textarea" -> <<"T", "E", "X", "T", "A", "R", "E", "A">>
          [] tag = "span" -> <<"S", "P", "A", "N">>
          [] tag = "form" -> <<"F", "O", "R", "M">>
  IN
  IF doc[n].testid # NoStr THEN <<"testid-">> \o doc[n].testid
  ELSE IF doc[n].id # NoStr THEN <<"id-">> \o doc[n].id
  ELSE <<"elem-">> \o simpleHash(TagName(doc[n].tag) \o doc[n].cls
                                   \o extractTextEfficiently(n, 20, 3))

\* extractElementData(element, isVisible): <<>> for null, else <<record>>
EffExtractElementData(n, isVisible) ==
  LET NoPosition == [y |-> 0, width |-> 0, height |-> 0]
  IN
  LET sel == generateOptimalSelector(n)
      computedRole == IF doc[n].role # NoStr THEN doc[n].role ELSE inferRole(n)
  IN IF sel.throws THEN <<>>
     ELSE << [id |-> generateElementId(n),
              selector |-> sel.selector,
              text |-> extractTextEfficiently(n, 100, 3),
              type |-> doc[n].tag,
              role |-> computedRole,
              visible |-> isVisible,
              position |-> IF isVisible THEN Position(n) ELSE NoPosition,
              priority |-> calculatePriority(n, doc[n].tag, computedRole),
              el |-> n] >>

\* the inner loop of processElements over one chunk: the records of the
\* elements of the chunk, visible being the elements the visibility map
\* holds true for
RECURSIVE ProcessChunk(_, _, _)
ProcessChunk(chunk, visible, config) ==
  IF chunk = <<>> THEN <<>>
  ELSE (IF ~config.includeInvisible /\ Head(chunk) \notin visible THEN <<>>
        ELSE EffExtractElementData(Head(chunk), Head(chunk) \in visible))
       \o ProcessChunk(Tail(chunk), visible, config)

RECURSIVE MapSetAll(_, _)
MapSetAll(items, elements) ==
  LET \* this.cache of EfficientDOMScanner is a Map from record id to record, held
      \* as its values in insertion order; cache.set(el.id, el)
      MapSet(items1, r) ==
        IF \E i \in 1..Len(items1) : items1[i].id = r.id
          THEN [i \in 1..Len(items1) |-> IF items1[i].id = r.id THEN r ELSE items1[i]]
          ELSE Append(items1, r)
  IN
  IF elements = <<>> THEN items
  ELSE MapSetAll(MapSet(items, Head(elements)), Tail(elements))
\* cache.clear(), then a cache.set for each record
updateCacheItems(elements) == MapSetAll(<<>>, elements)

(***************************************************************************)
(* SpotifyService and MoodMusicController (the mood-music page)            *)
(***************************************************************************)
\* controller: currentMusicMode, lastPlayedEmotion and the playlist in the
\* src of the embedded player; service: the token of SpotifyService, the
\* copy in chrome.storage.local and the outcome of the last API request
VARIABLES controller, service

Null == "null"
\* the value of a property that does not exist
JsUndefined == "undefined"

moodPlaylists ==
  [match |-> [happy |-> "37i9dQZF1DXdPec7aLTmlC",
              sad |-> "37i9dQZF1DX3YSRoSdA634",
              angry |-> "37i9dQZF1DX1tyCD9QhIWF",
              surprised |-> "37i9dQZF1DX4dyzvuaRJ0n",
              neutral |-> "37i9dQZF1DX4sWSpwq3LiO",
              excited |-> "37i9dQZF1DX0XUsuxWHRQd"],
   boost |-> [happy |-> "37i9dQZF1DX0XUsuxWHRQd",
              sad |-> "37i9dQZF1DX3rxVfibe1L0",
              angry |-> "37i9dQZF1DWXti3N4Wp5xy",
              surprised |-> "37i9dQZF1DX4sWSpwq3LiO",
              neutral |-> "37i9dQZF1DX0XUsuxWHRQd",
              excited |-> "37i9dQZF1DX3rxVfibe1L0"],
   energy |-> [high |-> "37i9dQZF1DX76Wlfdnj7AP",
               medium |-> "37i9dQZF1DX2sUQwD7tbmL",
               low |-> "37i9dQZF1DWZd79rJ6a7lp"]]

getPlaylistForEmotion(emotion, musicMode) ==
  LET \* property names every object literal inherits from Object.prototype,
      \* and the value found under them
      ObjectPrototype == {"constructor", "toString", "valueOf", "hasOwnProperty"}
      NativeFunction == "function () { [native code] }"
      \* obj[key]: an own property, else one of the prototype chain, else
      \* undefined
      Get(obj, key) ==
        IF key \in DOMAIN obj THEN obj[key]
        ELSE IF key \in ObjectPrototype THEN NativeFunction
        ELSE JsUndefined
      \* x || d, for x a non-empty string, a function or undefined
      Or(x, d) == IF x # JsUndefined THEN x ELSE d
      energyMap ==
        [happy |-> "high", excited |-> "high", angry |-> "high",
         surprised |-> "medium", neutral |-> "low", sad |-> "low"]
  IN IF musicMode = "energy"
       THEN Get(moodPlaylists.energy, Or(Get(energyMap, emotion), "medium"))
       ELSE Or(Get(moodPlaylists[musicMode], emotion), moodPlaylists.match.neutral)

\* new MoodMusicController(), no saved mode: no emotion has been played and
\* the player holds no playlist
\* isMoodAnalyzing is false; start and stop are the awaits the calls of
\* handleStartAnalysis() and handleStopAnalysis() in flight are suspended at;
\* stopDuringStart is history: handleStopAnalysis() has been called while the
\* last call of handleStartAnalysis() was suspended
NewController ==
  [currentMusicMode |-> "match", lastPlayedEmotion |-> Null, playerSrc |-> "",
   isMoodAnalyzing |-> FALSE, start |-> "idle", stop |-> "idle",
   stopDuringStart |-> FALSE]
\* updateMusicPlayer(emotion); playerSrc is the playlist id in spotifyPlayer.src
updateMusicPlayer(c, emotion) ==
  [c EXCEPT !.lastPlayedEmotion = emotion,
            !.playerSrc = getPlaylistForEmotion(emotion, c.currentMusicMode)]

\* expires_in of the OAuth response and the default of setAccessToken, in seconds
ExpiresIn == 3600
\* the step of the token clock, in seconds
TokenTick == 1800
\* new SpotifyService(): accessToken and tokenExpiry are null. left is the
\* time, in seconds, until the tokenExpiry of the service and of the storage
\* (setAccessToken writes the same value to both); api is the outcome of the
\* API request that has just been made
NewService ==
  [accessToken |-> FALSE, stored |-> FALSE, left |-> 0, isPlaying |-> FALSE,
   api |-> "none", rejected |-> FALSE]
\* this.accessToken && this.tokenExpiry > Date.now()
isTokenValid(s) == s.accessToken /\ s.left > 0

(***************************************************************************)
(* MorphCastService and the analysis handlers of MoodMusicController       *)
(***************************************************************************)
\* morphcast: the fields of the MorphCastService of the page, the state of
\* the MorphCast SDK script (window.morphCastStart is set when sdk is
\* "ready"), the loop timers that are pending and the loop ticks that are
\* suspended at their await
VARIABLES morphcast

\* this.historySize
historySize == 10
\* the detectEmotions() runs of one behaviour of the service alone, and of
\* one behaviour of the page
MaxTicks == 11
PageTicks == 2
\* the MorphCast events of one behaviour
MaxEvents == 1
\* the pending timers and suspended ticks at one time
MaxLoops == 2
\* the camera streams whose tracks run at one time
MaxStreams == 1

\* the keys of the smoothed emotions, in the order of the object literal;
\* values are tenths of a percent
SmoothedEmotions == <<"happy", "sad", "angry", "surprised", "neutral">>
\* what the step that has just been taken did: the message of the error
\* startAnalysis() threw, whether onEmotionUpdate was invoked
NoOut == [thrown |-> "", notified |-> FALSE]
\* new MorphCastService(). live counts the camera streams whose tracks have
\* not been stopped, init is the initialize() call in flight and who made
\* it; events, eventSeen and stopped are history: the MorphCast events
\* handled, whether a
\* CY_FACE_EMOTION_RESULT has been handled, and whether stopAnalysis() or
\* cleanup() has returned since startAnalysis() was last called; budget is
\* the number of runs of detectEmotions() the behaviour may still take
NewMorphCast ==
  [isInitialized |-> FALSE, isAnalyzing |-> FALSE, stream |-> FALSE, live |-> 0,
   listeners |-> FALSE, faceDetected |-> FALSE,
   currentEmotions |-> [e \in {SmoothedEmotions[k] : k \in 1..5} |-> 0],
   emotionHistory |-> <<>>, dominantEmotion |-> "neutral",
   simulationState |-> [currentDominant |-> "happy", changeCounter |-> 0,
                        changeInterval |-> 50],
   onEmotionUpdate |-> FALSE, sdk |-> "loading",
   init |-> [pc |-> "none", by |-> ""], timers |-> 0, suspended |-> <<>>,
   budget |-> PageTicks, events |-> 0, eventSeen |-> FALSE, stopped |-> FALSE,
   out |-> NoOut]

\* simulateEmotions(); rnd in 0..1 is what Math.random() returns, 1 standing
\* for a value just below 1
simulateEmotions(m, rnd) ==
  LET s == m.simulationState
      emotions == <<"happy", "sad", "neutral", "surprised", "angry">>
      st == IF s.changeCounter + 1 >= s.changeInterval
              THEN [currentDominant |-> emotions[1 + 4 * rnd], changeCounter |-> 0,
                    changeInterval |-> 30 + 39 * rnd]
              ELSE [s EXCEPT !.changeCounter = @ + 1]
      \* smoothTransition(current, target, speed), speed in hundredths
      smoothTransition(current, target, speed) ==
        current + ((target - current) * speed) \div 100
  IN [m EXCEPT !.simulationState = st,
               !.currentEmotions =
                 [e \in DOMAIN @ |->
                    IF e = st.currentDominant
                      THEN smoothTransition(@[e], 600 + 300 * rnd, 15)
                      ELSE smoothTransition(@[e], 50 + 150 * rnd, 10)],
               !.faceDetected = TRUE]

\* detectEmotions() without the shift of the history
detectEmotionsKeepingAll(m, rnd) ==
  LET hasRealData == m.faceDetected /\ \E e \in DOMAIN m.currentEmotions :
                                         m.currentEmotions[e] > 0
      d == IF ~hasRealData THEN simulateEmotions(m, rnd) ELSE m
  IN [d EXCEPT !.emotionHistory = Append(@, d.currentEmotions), !.budget = @ - 1]

\* detectEmotions()
detectEmotions(m, rnd) ==
  LET hasRealData == m.faceDetected /\ \E e \in DOMAIN m.currentEmotions :
                                         m.currentEmotions[e] > 0
      d == IF ~hasRealData THEN simulateEmotions(m, rnd) ELSE m
      pushed == Append(d.emotionHistory, d.currentEmotions)
  IN [d EXCEPT !.emotionHistory = IF Len(pushed) > historySize THEN Tail(pushed)
                                  ELSE pushed,
               !.budget = @ - 1]

\* updateDominantEmotion() over getSmoothedEmotions(): the sums of the
\* history are compared in place of the averages
updateDominantEmotion(m) ==
  LET h == IF m.emotionHistory = <<>> THEN <<m.currentEmotions>> ELSE m.emotionHistory
      RECURSIVE Sum(_, _)
      Sum(e, k) == IF k = 0 THEN 0 ELSE h[k][e] + Sum(e, k - 1)
      smoothed == [k \in 1..5 |-> Sum(SmoothedEmotions[k], Len(h))]
      RECURSIVE Max(_)
      \* the entry the loop holds after the first k entries: <<maxEmotion, maxValue>>
      Max(k) == IF k = 0 THEN <<"neutral", 0>>
                ELSE IF smoothed[k] > Max(k - 1)[2]
                       THEN <<SmoothedEmotions[k], smoothed[k]>>
                       ELSE Max(k - 1)
  IN [m EXCEPT !.dominantEmotion = IF Max(5)[2] > 200 * Len(h) THEN Max(5)[1]
                                   ELSE "neutral"]

\* analysisLoop() up to its await, run by the timer, the controller or a
\* client of the service
analysisLoop(m, by, rnd) ==
  IF ~m.isAnalyzing THEN m
  ELSE [detectEmotions(m, rnd) EXCEPT !.suspended = Append(@, by)]

\* startAnalysis() without the check of isInitialized
startAnalysisUnchecked(m, by, rnd) ==
  LET c == [m EXCEPT !.stopped = FALSE]
  IN IF c.isAnalyzing THEN c
     ELSE analysisLoop([c EXCEPT !.isAnalyzing = TRUE], by, rnd)

\* startAnalysis()
startAnalysis(m, by, rnd) ==
  LET c == [m EXCEPT !.stopped = FALSE]
  IN IF ~c.isInitialized THEN [c EXCEPT !.out.thrown = "MorphCast not initialized"]
     ELSE IF c.isAnalyzing THEN c
     ELSE analysisLoop([c EXCEPT !.isAnalyzing = TRUE], by, rnd)

\* stopAnalysis()
stopAnalysis(m) == [m EXCEPT !.isAnalyzing = FALSE, !.stopped = TRUE]

\* cleanup()
cleanup(m) ==
  [stopAnalysis(m) EXCEPT !.live = IF m.stream THEN @ - 1 ELSE @,
                          !.stream = FALSE, !.isInitialized = FALSE]

(***************************************************************************)
(* The state machine                                                       *)
(***************************************************************************)
vars == <<doc, pageLoading, mutationQueue, scanner, cache, cacheAge,
          observingMutations, observers, ret, call, controller, service, morphcast>>

\* the scan call in flight; seen is history: the number of nodes the document
\* had had when the scan was called
Idle == [pc |-> "idle", options |-> NoOptions, elements |-> <<>>, waited |-> 0,
         timerFired |-> FALSE, visible |-> {}, i |-> 0, processed |-> <<>>,
         seen |-> 0]

CacheLifetime ==
  CASE scanner = "Simple" -> SimpleCacheLifetime
    [] scanner = "Robust" -> RobustCacheLifetime
    [] scanner = "Efficient" -> EfficientCacheLifetime
Min(a, b) == IF a < b THEN a ELSE b
\* the observers one scanner is let to create
MaxObservers == 3

\* new SimpleDOMScanner() / new RobustDOMScanner() / new EfficientDOMScanner()
Constructed ==
  /\ scanner \in {"Simple", "Robust", "Efficient"}
  /\ pageLoading \in (IF scanner = "Robust" THEN BOOLEAN ELSE {FALSE})
  /\ mutationQueue = <<>>
  \* constructor: this.cache = null (an empty Map in EfficientDOMScanner),
  \* this.cacheTime = 0
  /\ cache = IF scanner = "Efficient" THEN ArrayCache(<<>>, 0, <<>>) ELSE NullCache
  /\ cacheAge = CacheLifetime
  \* setupDynamicDetection() / setupIncrementalUpdates() in the constructor
  /\ observingMutations = (scanner # "Simple")
  /\ observers = IF scanner = "Simple" THEN 0 ELSE 1
  /\ ret = NoRet
  /\ call = Idle

Init ==
  /\ doc = <<>>
  /\ Constructed
  /\ controller = NewController
  /\ service = NewService
  /\ morphcast = NewMorphCast

\* ---- the page ----------------------------------------------------------
\* the mutation records an observer of document.body (childList, subtree)
\* is handed in its next callback
Record(added, removed) ==
  IF observers > 0
    THEN Append(mutationQueue, [added |-> added, removed |-> removed])
    ELSE mutationQueue
\* an element under a parent without a box has no box
Placed(t, p, boxed) ==
  [t EXCEPT !.parent = p, !.rect = IF boxed THEN t.rect ELSE NoBox]
\* Mutation records are delivered in a microtask: no other task (a timer, an
\* observer or frame callback, the passing of time, the next change of the
\* page) runs before the callback; only the task that made the change can
\* still call the scanner
NoMicrotask == mutationQueue = <<>>

\* parent.appendChild(element)
InsertElement(t, p) ==
  LET HasBox == p = 0 \/ doc[p].rect # NoBox
  IN
  LET \* appending under p, the body or a div, keeps doc in document order
      CanAppendTo ==
        \/ p = 0
        \/ p \in Attached /\ doc[p].tag = "div" /\ \A m \in Attached : m > p => p \in SeqToSet(Ancestors(m))
  IN
  /\ NoMicrotask
  /\ Len(doc) < MaxNodes
  /\ CanAppendTo
  /\ doc' = Append(doc, Placed(t, p, HasBox))
  /\ mutationQueue' = Record(<<Len(doc) + 1>>, <<>>)
  /\ ret' = NoRet
  /\ UNCHANGED <<pageLoading, scanner, cache, cacheAge, observingMutations, observers, call, controller, service, morphcast>>

\* container.appendChild(child); document.body.appendChild(container): one
\* mutation record, whose addedNodes holds the container only
InsertSubtree(t, child) ==
  /\ NoMicrotask
  /\ Len(doc) + 1 < MaxNodes
  /\ doc' = doc \o <<Placed(t, 0, TRUE), Placed(child, Len(doc) + 1, t.rect # NoBox)>>
  /\ mutationQueue' = Record(<<Len(doc) + 1>>, <<>>)
  /\ ret' = NoRet
  /\ UNCHANGED <<pageLoading, scanner, cache, cacheAge, observingMutations, observers, call, controller, service, morphcast>>

\* element.remove()
RemoveElement(n) ==
  /\ NoMicrotask
  /\ n \in Attached
  /\ doc' = [m \in 1..Len(doc) |->
               IF m = n THEN [doc[m] EXCEPT !.attached = FALSE, !.parent = 0 - 1]
               ELSE IF m \in Descendants(n) THEN [doc[m] EXCEPT !.attached = FALSE]
               ELSE doc[m]]
  /\ mutationQueue' = Record(<<>>, <<n>>)
  /\ ret' = NoRet
  /\ UNCHANGED <<pageLoading, scanner, cache, cacheAge, observingMutations, observers, call, controller, service, morphcast>>

\* the loading indicator goes away
PageLoaded ==
  /\ NoMicrotask
  /\ pageLoading
  /\ pageLoading' = FALSE
  /\ ret' = NoRet
  /\ UNCHANGED <<doc, mutationQueue, scanner, cache, cacheAge, observingMutations, observers, call, controller, service, morphcast>>

\* TickMs pass
Tick ==
  LET \* the timeout the call in flight waits on
      CallTimeout == IF scanner = "Robust" THEN RobustWaitTimeout ELSE VisibilityTimeout
  IN
  /\ NoMicrotask
  /\ cacheAge < CacheLifetime \/ (call.pc # "idle" /\ call.waited < CallTimeout)
  /\ cacheAge' = Min(cacheAge + TickMs, CacheLifetime)
  /\ call' = IF call.pc = "idle" THEN call
             ELSE [call EXCEPT !.waited = Min(call.waited + TickMs, CallTimeout)]
  /\ ret' = NoRet
  /\ UNCHANGED <<doc, pageLoading, mutationQueue, scanner, cache, observingMutations, observers, controller, service, morphcast>>

\* ---- cache management --------------------------------------------------
\* clearCache() of SimpleDOMScanner and RobustDOMScanner, invalidateCache()
\* of EfficientDOMScanner: the cache is emptied and its time set to 0
ClearedCache == IF scanner = "Efficient" THEN ArrayCache(<<>>, 0, <<>>) ELSE NullCache
clearCache ==
  /\ cache' = ClearedCache
  /\ cacheAge' = CacheLifetime

ClearCache ==
  /\ cache # ClearedCache \/ cacheAge # CacheLifetime
  /\ clearCache
  /\ ret' = NoRet
  /\ UNCHANGED <<doc, pageLoading, mutationQueue, scanner, observingMutations, observers, call, controller, service, morphcast>>

\* the MutationObserver callback
SignificantChange(records) ==
  LET \* the MutationObserver callback of setupIncrementalUpdates
      EffSignificantChange ==
        \E k \in 1..Len(records) :
          \E m \in SeqToSet(records[k].added) : isInteractiveElement(m)
  IN
  LET \* the MutationObserver callback of setupDynamicDetection
      RobustSignificantChange ==
        \E k \in 1..Len(records) :
          \E m \in SeqToSet(records[k].added) \cup SeqToSet(records[k].removed) :
            doc[m].tag \in {"button", "a", "input", "select"}
  IN
  IF scanner = "Robust" THEN RobustSignificantChange
  ELSE EffSignificantChange
ObserverCallback ==
  /\ mutationQueue # <<>>
  /\ mutationQueue' = <<>>
  /\ IF SignificantChange(mutationQueue) THEN clearCache
     ELSE UNCHANGED <<cache, cacheAge>>
  /\ ret' = NoRet
  /\ UNCHANGED <<doc, pageLoading, scanner, observingMutations, observers, call, controller, service, morphcast>>

\* ---- SimpleDOMScanner.scan --------------------------------------------
\* a completed fresh scan: this.cache = results; this.cacheTime = Date.now()
Complete(results, items, options, seen, found) ==
  /\ cache' = ArrayCache(items, seen, found)
  /\ cacheAge' = 0
  /\ ret' = Returned(results, options, FALSE)
  /\ call' = Idle

SimpleScan(options) ==
  LET SimpleIsCacheValid == ~cache.null /\ cacheAge < SimpleCacheLifetime
  IN
  /\ scanner = "Simple"
  /\ IF options.useCache /\ SimpleIsCacheValid
       THEN /\ ret' = Returned(cache.items, options, TRUE)
            /\ UNCHANGED <<cache, cacheAge, call>>
       ELSE LET results == SimpleResults(options)
            IN Complete(results, results, options, Len(doc), SimpleCollect(options))
  /\ UNCHANGED <<doc, pageLoading, mutationQueue, scanner, observingMutations, observers, controller, service, morphcast>>

\* ---- RobustDOMScanner.scan --------------------------------------------
RobustMax(options) == OrDefault(options.maxElements, RobustDefaultMaxElements)
RobustScan(options) ==
  LET RobustIsCacheValid == ~cache.null /\ cacheAge < RobustCacheLifetime
  IN
  /\ scanner = "Robust"
  /\ call.pc = "idle"
  /\ IF options.useCache /\ RobustIsCacheValid
       THEN /\ ret' = Returned(cache.items, options, TRUE)
            /\ UNCHANGED <<cache, cacheAge, call>>
       ELSE LET elements == scanVisibleDOM(RobustMax(options)) IN
            IF isPageStillLoading
              THEN \* await this.waitForDynamicContent(1000)
                   /\ call' = [Idle EXCEPT !.pc = "waiting", !.options = options,
                                            !.elements = elements,
                                            !.seen = Len(doc)]
                   /\ ret' = NoRet
                   /\ UNCHANGED <<cache, cacheAge>>
              ELSE LET results == RobustResults(elements, options)
                   IN Complete(results, results, options, Len(doc),
                               RobustCandidates(elements, options))
  /\ UNCHANGED <<doc, pageLoading, mutationQueue, scanner, observingMutations, observers, controller, service, morphcast>>

\* a check() of waitForDynamicContent resolves: the indicators are gone, or
\* the timeout has passed; scan() re-scans and goes on
RobustWaitDone ==
  /\ NoMicrotask
  /\ call.pc = "waiting"
  /\ ~isPageStillLoading \/ call.waited >= RobustWaitTimeout
  /\ LET newElements == scanVisibleDOM(RobustMax(call.options))
         elements == IF Len(newElements) > Len(call.elements) THEN newElements
                     ELSE call.elements
         results == RobustResults(elements, call.options)
     IN Complete(results, results, call.options, call.seen,
                 RobustCandidates(elements, call.options))
  /\ UNCHANGED <<doc, pageLoading, mutationQueue, scanner, observingMutations, observers, controller, service, morphcast>>

\* ---- EfficientDOMScanner.scanPageElements -----------------------------
\* processElements with the try/catch of extractElementData left out: the
\* error of an element goes up through processElements and the promise of
\* scanPageElements rejects
ProcessFromUncaught(i, processed, visible) ==
  LET chunk == SubSeq(call.elements, i + 1,
                      IF i + chunkSize < Len(call.elements) THEN i + chunkSize
                      ELSE Len(call.elements))
      done == processed \o ProcessChunk(chunk, visible, call.options)
  IN IF \E k \in 1..Len(chunk) :
          /\ call.options.includeInvisible \/ chunk[k] \in visible
          /\ generateOptimalSelector(chunk[k]).throws
       THEN /\ call' = Idle
            /\ ret' = NoRet
            /\ UNCHANGED <<cache, cacheAge>>
     ELSE IF i + chunkSize < Len(call.elements)
       THEN /\ call' = [call EXCEPT !.pc = "frame", !.i = i + chunkSize,
                                      !.processed = done, !.visible = visible]
            /\ ret' = NoRet
            /\ UNCHANGED <<cache, cacheAge>>
       ELSE LET sorted == prioritizeElements(done)
            IN Complete(sorted, updateCacheItems(sorted), call.options, call.seen,
                        call.elements)
\* processElements from element i on, with the visibility map resolved:
\* one chunk, then either the next frame is awaited or the scan completes
ProcessFrom(i, processed, visible) ==
  LET chunk == SubSeq(call.elements, i + 1,
                      IF i + chunkSize < Len(call.elements) THEN i + chunkSize
                      ELSE Len(call.elements))
      done == processed \o ProcessChunk(chunk, visible, call.options)
  IN IF i + chunkSize < Len(call.elements)
       THEN \* await this.nextFrame()
            /\ call' = [call EXCEPT !.pc = "frame", !.i = i + chunkSize,
                                      !.processed = done, !.visible = visible]
            /\ ret' = NoRet
            /\ UNCHANGED <<cache, cacheAge>>
       ELSE LET sorted == prioritizeElements(done)
            IN Complete(sorted, updateCacheItems(sorted), call.options, call.seen,
                        call.elements)

EffScan(options) ==
  LET EffIsCacheValid ==
        cacheAge < EfficientCacheLifetime /\ Len(cache.items) > 0
  IN
  /\ scanner = "Efficient"
  /\ call.pc = "idle"
  /\ LET config == EffConfig(options) IN
     IF config.useCache /\ EffIsCacheValid
       THEN /\ ret' = Returned(cache.items, config, TRUE)
            /\ UNCHANGED <<cache, cacheAge, call>>
       ELSE LET elements == CASE config.priority = "speed" -> fastScan(config)
                              [] config.priority = "accuracy" -> accurateScan(config)
                              [] OTHER -> balancedScan(config)
            IN \* await this.batchVisibilityCheck(elements)
               /\ call' = [Idle EXCEPT !.pc = "visibility", !.options = config,
                                        !.elements = elements, !.seen = Len(doc)]
               /\ ret' = NoRet
               /\ UNCHANGED <<cache, cacheAge>>
  /\ UNCHANGED <<doc, pageLoading, mutationQueue, scanner, observingMutations, observers, controller, service, morphcast>>

\* the IntersectionObserver callback: an entry for every observed element,
\* processedCount reaches elements.length, the promise resolves
EffVisibilityObserved ==
  LET \* what the IntersectionObserver reports for an element (threshold 0.01)
      isIntersecting(n1) ==
        LET r == Rect(n1) IN
        r.width > 0 /\ r.height > 0 /\ r.top < innerHeight /\ r.bottom > 0
  IN
  /\ NoMicrotask
  /\ call.pc = "visibility"
  /\ call.elements # <<>>
  /\ ProcessFrom(0, <<>>, {n \in SeqToSet(call.elements) : isIntersecting(n)})
  /\ UNCHANGED <<doc, pageLoading, mutationQueue, scanner, observingMutations, observers, controller, service, morphcast>>

\* the safety timeout of batchVisibilityCheck fires before the observer has
\* reported: if (processedCount < elements.length) { fill with false; resolve }
EffVisibilityTimeout ==
  /\ NoMicrotask
  /\ call.pc = "visibility"
  /\ ~call.timerFired
  /\ call.waited >= VisibilityTimeout
  /\ IF 0 < Len(call.elements)
       THEN ProcessFrom(0, <<>>, {})
       ELSE /\ call' = [call EXCEPT !.timerFired = TRUE]
            /\ ret' = NoRet
            /\ UNCHANGED <<cache, cacheAge>>
  /\ UNCHANGED <<doc, pageLoading, mutationQueue, scanner, observingMutations, observers, controller, service, morphcast>>

\* requestAnimationFrame fires: the next chunk
EffNextFrame ==
  /\ NoMicrotask
  /\ call.pc = "frame"
  /\ ProcessFrom(call.i, call.processed, call.visible)
  /\ UNCHANGED <<doc, pageLoading, mutationQueue, scanner, observingMutations, observers, controller, service, morphcast>>

Next ==
  \/ \E t \in Templates, p \in 0..MaxNodes : InsertElement(t, p)
  \/ \E c \in Templates : InsertSubtree(PlainDiv, c)
  \/ \E n \in Nodes : RemoveElement(n)
  \/ PageLoaded
  \/ Tick
  \/ ClearCache
  \/ ObserverCallback
  \/ \E o \in SimpleOptions : SimpleScan(o)
  \/ \E o \in RobustOptions : RobustScan(o)
  \/ RobustWaitDone
  \/ \E o \in EfficientOptions : EffScan(o)
  \/ EffVisibilityObserved
  \/ EffVisibilityTimeout
  \/ EffNextFrame

Spec == Init /\ [][Next]_vars

\* ---- the observers of a scanner ----------------------------------------
\* setupDynamicDetection() of RobustDOMScanner returns when the scanner is
\* already observing; setupIncrementalUpdates() of EfficientDOMScanner makes
\* a new MutationObserver, has it observe document.body and keeps it in
\* this.mutationObserver
SetupObserver ==
  /\ NoMicrotask
  /\ scanner # "Simple"
  /\ observers < MaxObservers
  /\ IF scanner = "Robust" /\ observingMutations
       THEN UNCHANGED <<observingMutations, observers>>
       ELSE /\ observingMutations' = TRUE
            /\ observers' = observers + 1
  /\ ret' = NoRet
  /\ UNCHANGED <<doc, pageLoading, mutationQueue, scanner, cache, cacheAge, call,
                 controller, service, morphcast>>

\* destroy() of EfficientDOMScanner: the observer in this.mutationObserver
\* is disconnected and the cache emptied; the cache timestamp stays
Destroy ==
  /\ NoMicrotask
  /\ scanner = "Efficient"
  /\ observers' = IF observingMutations THEN observers - 1 ELSE observers
  /\ observingMutations' = FALSE
  /\ cache' = ArrayCache(<<>>, 0, <<>>)
  /\ ret' = NoRet
  /\ UNCHANGED <<doc, pageLoading, mutationQueue, scanner, cacheAge, call,
                 controller, service, morphcast>>

\* ---- a page that is complete when the scanner is constructed -----------
PageInit ==
  /\ doc \in Pages
  /\ Constructed
  /\ controller = NewController
  /\ service = NewService
  /\ morphcast = NewMorphCast
PageNext ==
  \/ PageLoaded
  \/ Tick
  \/ ClearCache
  \/ \E o \in SimpleOptions : SimpleScan(o)
  \/ \E o \in RobustOptions : RobustScan(o)
  \/ RobustWaitDone
  \/ \E o \in EfficientOptions : EffScan(o)
  \/ EffVisibilityObserved
  \/ EffVisibilityTimeout
  \/ EffNextFrame
  \/ SetupObserver
  \/ Destroy
PageSpec == PageInit /\ [][PageNext]_vars

\* ---- the mood-music page -----------------------------------------------
\* the outcome of an API request, service.api, is read in the step that
\* makes the request
\* a click on a mode button: switchMusicMode(mode)
SwitchMusicMode(mode) ==
  /\ controller' =
       LET c == [controller EXCEPT !.currentMusicMode = mode]
       IN IF c.lastPlayedEmotion # Null
            THEN updateMusicPlayer(c, c.lastPlayedEmotion)
            ELSE c
  /\ service' = [service EXCEPT !.api = "none", !.rejected = FALSE]
  /\ UNCHANGED <<doc, pageLoading, mutationQueue, scanner, cache, cacheAge,
                 observingMutations, observers, ret, call, morphcast>>

\* onEmotionUpdate(data) with data.dominant = dominant: updateEmotionUI(data)
UpdateEmotionUI(dominant) ==
  /\ controller' =
       IF dominant # controller.lastPlayedEmotion
         THEN updateMusicPlayer(controller, dominant)
         ELSE controller
  /\ service' = [service EXCEPT !.api = "none", !.rejected = FALSE]
  /\ UNCHANGED <<doc, pageLoading, mutationQueue, scanner, cache, cacheAge,
                 observingMutations, observers, ret, call, morphcast>>

\* authenticateWithOAuth(): a stored token that has not expired is taken;
\* otherwise the web auth flow is launched and, when the user grants access,
\* its token is set
AuthenticateWithOAuth(granted) ==
  /\ service' =
       LET \* loadToken()
           hasToken == service.stored /\ service.left > 0
           loaded == IF hasToken THEN [service EXCEPT !.accessToken = TRUE] ELSE service
           \* setAccessToken(accessToken, expiresIn)
           setAccessToken(s, expiresIn) ==
             [s EXCEPT !.accessToken = TRUE, !.stored = TRUE, !.left = expiresIn]
       IN [(IF hasToken /\ isTokenValid(loaded) THEN loaded
            ELSE IF granted THEN setAccessToken(loaded, ExpiresIn)
            ELSE loaded) EXCEPT !.api = "none", !.rejected = FALSE]
  /\ UNCHANGED <<controller, doc, pageLoading, mutationQueue, scanner, cache, cacheAge,
                 observingMutations, observers, ret, call, morphcast>>

\* fetchSpotifyAPI(endpoint, method, body): it throws when the token is not
\* valid; the server accepts a token that has not expired
FetchSpotifyAPI ==
  /\ service' = [service EXCEPT !.api = IF isTokenValid(service) THEN "ok" ELSE "throws",
                                !.rejected = ~isTokenValid(service)]
  /\ UNCHANGED <<controller, doc, pageLoading, mutationQueue, scanner, cache, cacheAge,
                 observingMutations, observers, ret, call, morphcast>>

\* pause(), resume(), next(), previous(), setVolume(), playTracks(uris) and
\* playEmotionPlaylist(emotion, mode), each run to its end. r.accepts[k]
\* tells whether the server accepts the k-th request of the operation,
\* r.devices whether the device list holds a device, r.playing the is_playing
\* of the currently-playing response. Each request is sent once and the
\* operation ends at the first one that throws, unless it catches it. api is
\* the outcome of the operation, rejected whether the token check or the
\* server refused one of its requests
Playback(op, r) ==
  LET valid == isTokenValid(service)
      \* the requests of the operation, in order, that are sent when each
      \* one before has succeeded
      planned ==
        CASE op = "playTracks" -> IF r.devices THEN 2 ELSE 1
          [] op = "playEmotionPlaylist" -> IF r.devices THEN 4 ELSE 2
          [] OTHER -> 1
      Refused(k) == ~valid \/ ~r.accepts[k]
      \* updateCurrentTrack() catches what its request throws
      caught(k) == op = "playEmotionPlaylist" /\ k = 4
      stops == {k \in 1..planned : Refused(k) /\ ~caught(k)}
      first == IF stops = {} THEN planned + 1
               ELSE CHOOSE k \in stops : \A m \in stops : k <= m
      done == first > planned
      \* the device list is empty: playTracks throws
      noDevice == done /\ ~r.devices /\ op \in {"playTracks", "playEmotionPlaylist"}
      played ==
        CASE op = "pause" /\ done -> FALSE
          [] op = "resume" /\ done -> TRUE
          [] op = "playTracks" /\ done /\ r.devices -> TRUE
          [] op = "playEmotionPlaylist" /\ first > 3 /\ r.devices ->
               IF Refused(4) THEN TRUE ELSE r.playing
          [] OTHER -> service.isPlaying
  IN /\ service' = [service EXCEPT
                      !.api = IF done /\ ~noDevice THEN "ok" ELSE "throws",
                      !.rejected = \E k \in 1..planned : k <= first /\ Refused(k),
                      !.isPlaying = played]
     /\ UNCHANGED <<controller, doc, pageLoading, mutationQueue, scanner, cache, cacheAge,
                    observingMutations, observers, ret, call, morphcast>>

\* TokenTick seconds pass
TokenTime ==
  /\ service.left > 0
  /\ service' = [service EXCEPT !.left = IF service.left > TokenTick
                                          THEN service.left - TokenTick ELSE 0,
                                 !.api = "none", !.rejected = FALSE]
  /\ UNCHANGED <<controller, doc, pageLoading, mutationQueue, scanner, cache, cacheAge,
                 observingMutations, observers, ret, call, morphcast>>

\* the page is opened with or without a saved mode (loadSavedSettings) and
\* a stored token
MusicInit ==
  /\ doc = <<>>
  /\ Constructed
  /\ scanner = "Simple"
  /\ controller \in {[NewController EXCEPT !.currentMusicMode = m] : m \in DOMAIN moodPlaylists}
  /\ service \in {NewService} \cup
       {[NewService EXCEPT !.stored = TRUE, !.left = l] : l \in {0, TokenTick, ExpiresIn}}
  /\ morphcast = NewMorphCast
MusicNext ==
  LET \* the emotion names getPlaylistForEmotion is called with: the five
      \* MorphCastService reports, and names outside them
      Emotions ==
        {"happy", "sad", "angry", "surprised", "neutral", "excited", "fearful", "constructor"}
  IN
  LET PlaybackOperations ==
        {"pause", "resume", "next", "previous", "setVolume", "playTracks", "playEmotionPlaylist"}
  IN
  \/ \E m \in DOMAIN moodPlaylists : SwitchMusicMode(m)
  \/ \E e \in Emotions : UpdateEmotionUI(e)
  \/ \E g \in BOOLEAN : AuthenticateWithOAuth(g)
  \/ FetchSpotifyAPI
  \/ \E op \in PlaybackOperations, a \in [1..4 -> BOOLEAN], d, p \in BOOLEAN :
       Playback(op, [accepts |-> a, devices |-> d, playing |-> p])
  \/ TokenTime
MusicSpec == MusicInit /\ [][MusicNext]_vars

\* ---- emotion analysis on the mood-music page ---------------------------
\* the continuation of an await on a settled promise runs before any timer,
\* event or click: a microtask is queued while a loop tick is suspended at
\* `await this.detectEmotions()` or handleStartAnalysis() at
\* `await this.morphcastService.startAnalysis()`
Microtask == morphcast.suspended # <<>> \/ controller.start = "startAnalysis"

\* a click on Start: handleStartAnalysis() up to `await initialize(video)`;
\* secure is whether the page has a secure context with mediaDevices. One
\* call of handleStartAnalysis() and one of initialize() are in flight at a
\* time
HandleStartAnalysis(secure) ==
  /\ ~Microtask
  /\ controller.start = "idle"
  /\ morphcast.init.pc = "none"
  /\ morphcast' =
       [morphcast EXCEPT !.init = IF secure THEN [pc |-> "getUserMedia", by |-> "controller"]
                                  ELSE @,
                         !.out = NoOut]
  /\ controller' = [controller EXCEPT !.start = IF secure THEN "initialize" ELSE "idle",
                                      !.stopDuringStart = FALSE]
  /\ UNCHANGED <<doc, pageLoading, mutationQueue, scanner, cache, cacheAge,
                 observingMutations, observers, ret, call, service>>

\* initialize() resumes: getUserMedia() settles (ok: with a stream), then
\* the video fires loadedmetadata, which it does while the stream is its
\* srcObject; the caller resumes when initialize()
\* settles, and handleStartAnalysis() goes on to `await morphCastReady` and,
\* when window.morphCastStart is set, to `await window.morphCastStart()`
InitializeResumes(ok) ==
  /\ ~Microtask
  /\ morphcast.init.pc # "none"
  /\ morphcast.init.pc = "metadata" => ok /\ morphcast.stream
  /\ morphcast.init.pc = "getUserMedia" /\ ok => morphcast.live < MaxStreams
  /\ morphcast' =
       CASE morphcast.init.pc = "getUserMedia" /\ ok ->
              [morphcast EXCEPT !.stream = TRUE, !.live = @ + 1,
                                !.init.pc = "metadata", !.out = NoOut]
         [] morphcast.init.pc = "getUserMedia" /\ ~ok ->
              [morphcast EXCEPT !.init = NewMorphCast.init, !.out = NoOut]
         [] OTHER ->
              [morphcast EXCEPT !.listeners = TRUE, !.isInitialized = TRUE,
                                !.init = NewMorphCast.init, !.out = NoOut]
  /\ controller' =
       IF morphcast.init.by # "controller" THEN controller
       ELSE CASE morphcast.init.pc = "getUserMedia" /\ ok -> controller
              [] morphcast.init.pc = "getUserMedia" /\ ~ok ->
                   [controller EXCEPT !.start = "idle"]
              [] OTHER ->
                   [controller EXCEPT !.start = IF morphcast.sdk = "ready"
                                                  THEN "morphCastStart"
                                                  ELSE "morphCastReady"]
  /\ UNCHANGED <<doc, pageLoading, mutationQueue, scanner, cache, cacheAge,
                 observingMutations, observers, ret, call, service>>

\* morphcast-loader.js: the SDK script loads and CY.loader().load() resolves
\* (ok: window.morphCastStart and morphCastStop are set and MORPHCAST_READY
\* is dispatched), or the script fails to load or load() rejects
SdkLoaded(ok) ==
  /\ ~Microtask
  /\ morphcast.sdk = "loading"
  /\ morphcast' = [morphcast EXCEPT !.sdk = IF ok THEN "ready" ELSE "failed",
                                    !.out = NoOut]
  /\ controller' = IF ok /\ controller.start = "morphCastReady"
                     THEN [controller EXCEPT !.start = "morphCastStart"]
                     ELSE controller
  /\ UNCHANGED <<doc, pageLoading, mutationQueue, scanner, cache, cacheAge,
                 observingMutations, observers, ret, call, service>>

\* handleStartAnalysis() resumes: window.morphCastStart() settles, the
\* callback is set and startAnalysis() is called; then startAnalysis() has
\* settled and isMoodAnalyzing is set
StartResumes(rnd) ==
  \/ /\ ~Microtask
     /\ controller.start = "morphCastStart"
     /\ morphcast.budget > 0
     /\ morphcast.timers + Len(morphcast.suspended) < MaxLoops
     /\ morphcast' = startAnalysis([morphcast EXCEPT !.onEmotionUpdate = TRUE, !.out = NoOut],
                                   "controller", rnd)
     /\ controller' = [controller EXCEPT !.start = IF morphcast.isInitialized
                                                     THEN "startAnalysis" ELSE "idle"]
     /\ UNCHANGED <<doc, pageLoading, mutationQueue, scanner, cache, cacheAge,
                    observingMutations, observers, ret, call, service>>
  \/ /\ morphcast.suspended = <<>>
     /\ controller.start = "startAnalysis"
     /\ morphcast' = [morphcast EXCEPT !.out = NoOut]
     /\ controller' = [controller EXCEPT !.isMoodAnalyzing = TRUE, !.start = "idle"]
     /\ UNCHANGED <<doc, pageLoading, mutationQueue, scanner, cache, cacheAge,
                    observingMutations, observers, ret, call, service>>

\* a click on Stop: handleStopAnalysis() up to `await window.morphCastStop()`
\* when the SDK has set it, to its end otherwise
HandleStopAnalysis ==
  /\ ~Microtask
  /\ controller.stop = "idle"
  /\ morphcast' = IF morphcast.sdk = "ready" THEN [morphcast EXCEPT !.out = NoOut]
                  ELSE cleanup([morphcast EXCEPT !.out = NoOut])
  /\ controller' =
       LET c == [controller EXCEPT !.stopDuringStart = @ \/ controller.start # "idle"]
       IN IF morphcast.sdk = "ready" THEN [c EXCEPT !.stop = "morphCastStop"]
          ELSE [c EXCEPT !.isMoodAnalyzing = FALSE]
  /\ UNCHANGED <<doc, pageLoading, mutationQueue, scanner, cache, cacheAge,
                 observingMutations, observers, ret, call, service>>

\* handleStopAnalysis() resumes: window.morphCastStop() has settled
StopResumes ==
  /\ ~Microtask
  /\ controller.stop = "morphCastStop"
  /\ morphcast' = cleanup([morphcast EXCEPT !.out = NoOut])
  /\ controller' = [controller EXCEPT !.isMoodAnalyzing = FALSE, !.stop = "idle"]
  /\ UNCHANGED <<doc, pageLoading, mutationQueue, scanner, cache, cacheAge,
                 observingMutations, observers, ret, call, service>>

\* code that holds the service calls one of its methods or sets its
\* onEmotionUpdate, in a task of its own or right after a call of its own
\* that left a suspended tick
ServiceCall(op, rnd) ==
  /\ \A k \in 1..Len(morphcast.suspended) : morphcast.suspended[k] = "client"
  /\ op = "initialize" => morphcast.init.pc = "none"
  /\ op = "startAnalysis" => /\ morphcast.budget > 0
                             /\ morphcast.timers + Len(morphcast.suspended) < MaxLoops
  /\ morphcast' =
       LET m == [morphcast EXCEPT !.out = NoOut]
       IN CASE op = "initialize" ->
                 [m EXCEPT !.init = [pc |-> "getUserMedia", by |-> "client"]]
            [] op = "startAnalysis" -> startAnalysis(m, "client", rnd)
            [] op = "stopAnalysis" -> stopAnalysis(m)
            [] op = "cleanup" -> cleanup(m)
            [] op = "onEmotionUpdate" -> [m EXCEPT !.onEmotionUpdate = TRUE]
  /\ UNCHANGED <<controller, doc, pageLoading, mutationQueue, scanner, cache, cacheAge,
                 observingMutations, observers, ret, call, service>>

\* the 100 ms timer of a tick fires: analysisLoop() up to its await
LoopTimer(rnd) ==
  /\ ~Microtask
  /\ morphcast.timers > 0
  /\ morphcast.isAnalyzing => morphcast.budget > 0
  /\ morphcast' = analysisLoop([morphcast EXCEPT !.timers = @ - 1, !.out = NoOut],
                               "timer", rnd)
  /\ UNCHANGED <<controller, doc, pageLoading, mutationQueue, scanner, cache, cacheAge,
                 observingMutations, observers, ret, call, service>>

\* the tick that was suspended first resumes after its await:
\* updateDominantEmotion(), the callback, setTimeout(analysisLoop, 100);
\* err: the callback throws, and the catch calls stopAnalysis()
LoopResumes(err) ==
  /\ morphcast.suspended # <<>>
  /\ err => morphcast.onEmotionUpdate
  /\ morphcast' =
       LET m == updateDominantEmotion([morphcast EXCEPT
                                         !.suspended = Tail(@),
                                         !.out = [NoOut EXCEPT !.notified =
                                                    morphcast.onEmotionUpdate]])
       IN IF err THEN stopAnalysis(m) ELSE [m EXCEPT !.timers = @ + 1]
  /\ controller' =
       LET dominant == updateDominantEmotion(morphcast).dominantEmotion
       IN IF morphcast.onEmotionUpdate /\ ~err /\ dominant # controller.lastPlayedEmotion
            THEN updateMusicPlayer(controller, dominant)
            ELSE controller
  /\ UNCHANGED <<doc, pageLoading, mutationQueue, scanner, cache, cacheAge,
                 observingMutations, observers, ret, call, service>>

\* the SDK dispatches CY_FACE_EMOTION_RESULT with Happy at 1 ("happy") or
\* with every emotion at 0 ("none"), or CY_FACE_LOST ("lost"):
\* handleMorphCastEmotion(event), handleFaceLost()
MorphCastEvent(ev) ==
  /\ ~Microtask
  /\ morphcast.listeners
  /\ morphcast.events < MaxEvents
  /\ morphcast' =
       [morphcast EXCEPT
          !.currentEmotions = [e \in DOMAIN @ |-> IF ev = "happy" /\ e = "happy"
                                                    THEN 1000 ELSE 0],
          !.faceDetected = ev # "lost",
          !.eventSeen = @ \/ ev # "lost",
          !.events = @ + 1,
          !.out = NoOut]
  /\ UNCHANGED <<controller, doc, pageLoading, mutationQueue, scanner, cache, cacheAge,
                 observingMutations, observers, ret, call, service>>

\* the mood-music page is opened
AnalysisInit ==
  /\ doc = <<>>
  /\ Constructed
  /\ scanner = "Simple"
  /\ controller = NewController
  /\ service = NewService
  /\ morphcast = NewMorphCast
AnalysisNext ==
  \/ \E secure \in BOOLEAN : HandleStartAnalysis(secure)
  \/ \E ok \in BOOLEAN : InitializeResumes(ok)
  \/ \E ok \in BOOLEAN : SdkLoaded(ok)
  \/ \E rnd \in 0..1 : StartResumes(rnd)
  \/ HandleStopAnalysis
  \/ StopResumes
  \/ \E rnd \in 0..1 : LoopTimer(rnd)
  \/ \E err \in BOOLEAN : LoopResumes(err)
  \/ \E ev \in {"happy", "none", "lost"} : MorphCastEvent(ev)
AnalysisSpec == AnalysisInit /\ [][AnalysisNext]_vars

\* ---- the service alone, held by code that calls its methods -----------
ServiceNext ==
  \/ \E op \in {"initialize", "startAnalysis", "stopAnalysis", "cleanup", "onEmotionUpdate"},
        rnd \in 0..1 : ServiceCall(op, rnd)
  \/ \E ok \in BOOLEAN : InitializeResumes(ok)
  \/ \E rnd \in 0..1 : LoopTimer(rnd)
  \/ \E err \in BOOLEAN : LoopResumes(err)
  \/ \E ev \in {"happy", "none", "lost"} : MorphCastEvent(ev)
ServiceSpec == AnalysisInit /\ [][ServiceNext]_vars

\* ---- the analysis loop of a service whose initialize() has resolved -----
LoopInit ==
  /\ doc = <<>>
  /\ Constructed
  /\ scanner = "Simple"
  /\ controller = NewController
  /\ service = NewService
  /\ morphcast = [NewMorphCast EXCEPT !.isInitialized = TRUE, !.stream = TRUE, !.live = 1,
                                      !.listeners = TRUE, !.budget = MaxTicks]
LoopNext ==
  \/ \E op \in {"startAnalysis", "stopAnalysis"}, rnd \in 0..1 : ServiceCall(op, rnd)
  \/ \E rnd \in 0..1 : LoopTimer(rnd)
  \/ \E err \in BOOLEAN : LoopResumes(err)
  \/ \E ev \in {"happy", "none", "lost"} : MorphCastEvent(ev)
LoopSpec == LoopInit /\ [][LoopNext]_vars

(***************************************************************************)
(* Properties of the scanners                                              *)
(***************************************************************************)
\* the scan that has just returned returned a record of element n
Returns(n) == \E k \in 1..Len(ret.val) : ret.val[k].el = n
\* document.querySelectorAll(r.selector) does not throw and its matches
\* include the element the record r was derived from
Resolves(r) ==
  LET Holds(q) == q.ok /\ r.el \in SeqToSet(q.nodes)
  IN Holds(QuerySelectorAll(r.selector))
\* the maxElements of a call: the value passed, the scanner's default when absent
Limit(options) ==
  IF options.maxElements # Undefined THEN options.maxElements
  ELSE CASE scanner = "Simple" -> SimpleDefaultMaxElements
         [] scanner = "Robust" -> RobustDefaultMaxElements
         [] scanner = "Efficient" -> EfficientDefaultMaxElements
\* button, link with href, input, select, textarea, an interactive role or a
\* click handler
IsInteractive(n) ==
  \/ doc[n].tag \in {"button", "input", "select", "textarea"}
  \/ doc[n].tag = "a" /\ doc[n].href # NoStr
  \/ doc[n].role \in {<<"button">>, <<"link">>, <<"tab">>, <<"menuitem">>}
  \/ doc[n].onclick
\* the document is one visible <button id="login:btn"> and, at most, divs
\* that are not interactive; nothing has been removed from it
OnlyColonButton(n) ==
  /\ Attached = Nodes
  /\ doc[n].tag = "button" /\ doc[n].id = <<"login", ":", "btn">>
  /\ SimpleIsVisible(n)
  /\ \A m \in Nodes \ {n} : doc[m].tag = "div" /\ ~IsInteractive(m)

\* C1: a scan with useCache true that follows, on the unchanged document and
\* within the cache lifetime, a completed scan with the same options returns
\* the sequence the first scan returned
IdempotentScan ==
  [][(ret.some /\ ret'.some /\ ret.opts.useCache /\ ret'.opts = ret.opts)
       => ret'.val = ret.val]_vars

\* C2: re-evaluating the selector of any record a scan has just produced does
\* not throw and yields matches that include the record's element
SelectorsResolve ==
  (ret.some /\ ~ret.hit) => \A k \in 1..Len(ret.val) : Resolves(ret.val[k])

\* C3: every selector EfficientDOMScanner produces is valid selector syntax,
\* whatever characters the ids and attribute values it embeds contain
EfficientSelectorsParse ==
  (scanner = "Efficient" /\ ret.some /\ ~ret.hit)
    => \A k \in 1..Len(ret.val) : ParseSelector(ret.val[k].selector).ok

\* C4: SimpleDOMScanner and RobustDOMScanner, scanning a document whose only
\* interactive element is a visible <button id="login:btn">, return exactly
\* one record; its selector is #login\:btn and querying it yields exactly
\* that button
ColonButtonScanned ==
  \A n \in Nodes :
    (scanner \in {"Simple", "Robust"} /\ ret.some /\ ~ret.hit /\ OnlyColonButton(n))
      => /\ Len(ret.val) = 1
         /\ ret.val[1].el = n
         /\ ret.val[1].selector = <<"#", "login", "\\", ":", "btn">>
         /\ QuerySelectorAll(ret.val[1].selector) = [ok |-> TRUE, nodes |-> <<n>>]
\* the case of C4 has happened
ColonButtonScannedWitness ==
  \E n \in Nodes :
    /\ scanner \in {"Simple", "Robust"} /\ ret.some /\ ~ret.hit /\ OnlyColonButton(n)
    /\ Len(ret.val) = 1 /\ ret.val[1].el = n

\* C5: with RobustDOMScanner and EfficientDOMScanner, once the observer
\* callback has run, a scan served from the cache returns every visible
\* interactive element added to the document since the cached scan was called
AddedElementScanned ==
  (scanner \in {"Robust", "Efficient"} /\ ret.some /\ ret.hit
     /\ ret.opts.maxElements \notin {0, 1} /\ mutationQueue = <<>>)
    => \A n \in Attached :
         (n > cache.seen /\ IsInteractive(n) /\ SimpleIsVisible(n)) => Returns(n)

\* C6: with RobustDOMScanner and EfficientDOMScanner, once the observer
\* callback has run, a scan served from the cache returns no record of an
\* element that has been removed from the document
RemovedElementDropped ==
  (scanner \in {"Robust", "Efficient"} /\ ret.some /\ ret.hit /\ mutationQueue = <<>>)
    => \A k \in 1..Len(ret.val) : doc[ret.val[k].el].parent >= 0

\* C7: a scan returns at most maxElements records, maxElements being the
\* value passed to the call, or the default
AtMostMaxElements == ret.some => Len(ret.val) <= Limit(ret.opts)

\* C8: a scan called with maxElements = 0 returns the empty sequence
ZeroMaxElementsEmpty == (ret.some /\ ret.opts.maxElements = 0) => ret.val = <<>>

\* C9: once the safety timeout of batchVisibilityCheck has fired, the
\* visibility check has resolved and the scan has gone on
VisibilityCheckResolves == ~(call.pc = "visibility" /\ call.timerFired)

\* C10: a scan called without includeInvisible / includeHidden returns
\* visible records only
OnlyVisibleReturned ==
  (ret.some /\ ~ret.opts.includeInvisible /\ ~ret.opts.includeHidden)
    => \A k \in 1..Len(ret.val) : ret.val[k].visible

\* C11: EfficientDOMScanner returns its records in non-increasing priority
\* order, records of equal priority in the order their elements were
\* discovered, whether the result was computed or served from the cache
RankedInDiscoveryOrder ==
  (scanner = "Efficient" /\ ret.some)
    => \A i, j \in 1..Len(ret.val) :
         i < j => \/ ret.val[i].priority > ret.val[j].priority
                  \/ /\ ret.val[i].priority = ret.val[j].priority
                     /\ IndexOf(cache.found, ret.val[i].el)
                          < IndexOf(cache.found, ret.val[j].el)

\* C12: no result of a scan holds two records derived from the same DOM node
NoDuplicateNodes ==
  ret.some => \A i, j \in 1..Len(ret.val) :
                ret.val[i].el = ret.val[j].el => i = j
\* a scan has returned a node that several collection strategies reach: a
\* button with role="button", an onclick attribute and a 'btn' class
NoDuplicateNodesWitness ==
  /\ ret.some /\ ~ret.hit
  /\ \E n \in Nodes :
       /\ doc[n].tag = "button" /\ doc[n].role = <<"button">> /\ doc[n].onclick
       /\ Includes(doc[n].cls, <<"b", "t", "n">>)
       /\ Returns(n)

\* the options of a call that passes none (with the defaults
\* EfficientDOMScanner fills in)
DefaultCall(options) == options = NoOptions \/ options = EffConfig(NoOptions)
\* C13: a scan with default options returns no record of an element that is
\* nested inside another interactive element
OuterElementOnly ==
  (ret.some /\ DefaultCall(ret.opts))
    => \A k \in 1..Len(ret.val) :
         \A a \in SeqToSet(Ancestors(ret.val[k].el)) : ~IsInteractive(a)

\* C14: when the extraction of one candidate throws, the scan of
\* EfficientDOMScanner still completes, and it returns a record for every
\* other candidate it processes (the visible ones, or all with
\* includeInvisible) and none for the failing one
ThrowingElementSkipped ==
  [][(scanner = "Efficient" /\ call.pc = "frame" /\ call'.pc = "idle")
       => /\ ret'.some
          /\ \A n \in SeqToSet(call.elements) :
               (\E k \in 1..Len(ret'.val) : ret'.val[k].el = n)
                 <=> /\ call.options.includeInvisible \/ n \in call.visible
                     /\ ~generateOptimalSelector(n).throws]_vars
\* a scan has completed that had a candidate whose extraction threw, without
\* a record for it and with a record for another candidate
ThrowingElementSkippedWitness ==
  /\ scanner = "Efficient" /\ ret.some /\ ~ret.hit
  /\ \E n, m \in SeqToSet(cache.found) :
       generateOptimalSelector(n).throws /\ ~Returns(n) /\ Returns(m)

\* C15: the record of an element that has a data-testid attribute carries an
\* attribute-equality selector on data-testid, whatever other attributes
\* (id, aria-label, name, class) the element has
TestIdRuleFirst ==
  (ret.some /\ ~ret.hit)
    => \A k \in 1..Len(ret.val) :
         doc[ret.val[k].el].testid # NoStr
           => StartsWith(ret.val[k].selector, <<"[", "data-testid", "=", "\"">>)

\* C16: whatever constructions, scans, cache clearings, repeated calls of
\* setupDynamicDetection / setupIncrementalUpdates and calls of destroy have
\* taken place, at most one MutationObserver made by the scanner is observing
\* the document
AtMostOneObserver == observers <= 1

\* C17: the cache is warm exactly when less than the cache lifetime has
\* elapsed since a scan completed and nothing has invalidated the cache
\* since: a scan called with useCache true in such a state is served from
\* the cache, and a scan called in any other state, or without useCache,
\* performs a fresh collection
Warm == cacheAge < CacheLifetime
WarmExactlyWhenFresh ==
  [][/\ (call.pc = "idle" /\ ret'.some) =>
          (ret'.hit <=> (ret'.opts.useCache /\ Warm))
     /\ (call.pc = "idle" /\ call'.pc # "idle") =>
          ~(call'.options.useCache /\ Warm)]_vars

\* the playlist the documentation gives for an emotion and a mode
TableEmotions == {"happy", "sad", "angry", "surprised", "neutral"}
DocumentedPlaylist(emotion, musicMode) ==
  IF musicMode = "energy"
    THEN CASE emotion \in {"happy", "excited", "angry"} -> moodPlaylists.energy.high
           [] emotion = "surprised" -> moodPlaylists.energy.medium
           [] emotion \in {"neutral", "sad"} -> moodPlaylists.energy.low
           [] OTHER -> moodPlaylists.energy.medium
    ELSE IF emotion \in TableEmotions THEN moodPlaylists[musicMode][emotion]
         ELSE moodPlaylists.match.neutral
\* C18: the playlist getPlaylistForEmotion has given the player for the last
\* emotion and the current mode is the documented one: in match and boost
\* mode the table entry of happy, sad, angry, surprised and neutral and the
\* match-mode neutral playlist for any other emotion; in energy mode high for
\* happy, excited and angry, medium for surprised, low for neutral and sad,
\* medium for any other emotion; it is never undefined
PlaylistAsDocumented ==
  controller.lastPlayedEmotion # Null =>
    /\ controller.playerSrc # JsUndefined
    /\ controller.playerSrc =
         DocumentedPlaylist(controller.lastPlayedEmotion, controller.currentMusicMode)

\* C19: once the token the service holds has expired, an API request (and
\* the playback operations built on it) succeeds all the same, the service
\* having refreshed the token without the caller authenticating again
RequestSucceedsAfterExpiry ==
  [][(service.accessToken /\ service.left = 0 /\ service'.api # "none") =>
       service'.api = "ok"]_vars

\* C20: a switch of the music mode while a playlist is loaded for the last
\* dominant emotion leaves the playlist of the player as it is
ModeSwitchKeepsPlaylist ==
  [][(/\ controller.lastPlayedEmotion # Null
      /\ controller'.currentMusicMode # controller.currentMusicMode) =>
       controller'.playerSrc = controller.playerSrc]_vars

\* the priority of an element when the role bonus goes to an explicit role
\* attribute only
ExplicitRolePriority(n) ==
  calculatePriority(n, doc[n].tag, NoStr) + (IF doc[n].role # NoStr THEN 3 ELSE 0)
\* C23: calculatePriority grants the role bonus (+3) only to an element with
\* an explicit role attribute: a record of EfficientDOMScanner carries the
\* score of its tag, test id, label and classes, plus 3 exactly when the
\* element has a role attribute, so that a plain button scores 10
RoleBonusForExplicitRole ==
  (scanner = "Efficient" /\ ret.some /\ ~ret.hit) =>
    \A k \in 1..Len(ret.val) : ret.val[k].priority = ExplicitRolePriority(ret.val[k].el)

\* C26: in EfficientDOMScanner an invalidation is not lost to a scan in
\* flight: a scan is never served from a cache built from the candidates
\* collected before an interactive element was added to the body, once the
\* observer has been told of the addition
InvalidationNotLost ==
  (scanner = "Efficient" /\ ret.some /\ ret.hit /\ mutationQueue = <<>>) =>
    ~\E n \in Nodes : /\ n > cache.seen
                      /\ doc[n].parent = 0
                      /\ isInteractiveElement(n)

\* C21: an operation one of whose requests the token check or the Spotify
\* API refuses rejects to its caller, and isPlaying keeps the value it had
\* before the operation
RefusedOperationRejects ==
  [][service'.rejected =>
       /\ service'.api = "throws"
       /\ service'.isPlaying = service.isPlaying]_vars

(***************************************************************************)
(* Properties of the emotion analysis                                      *)
(***************************************************************************)
\* the most recent at most historySize readings of h
MostRecent(h) == SubSeq(h, Len(h) - Min(Len(h), historySize) + 1, Len(h))
\* the emotion whose average over the readings h is the greatest (the first
\* of the object literal among equals) when that average is above 20%,
\* neutral otherwise
DominantOf(h) ==
  LET RECURSIVE Total(_, _)
      Total(k, i) == IF i = 0 THEN 0 ELSE h[i][SmoothedEmotions[k]] + Total(k, i - 1)
      Greatest(k) == /\ \A j \in 1..5 : Total(j, Len(h)) <= Total(k, Len(h))
                     /\ \A j \in 1..(k - 1) : Total(j, Len(h)) < Total(k, Len(h))
      best == CHOOSE k \in 1..5 : Greatest(k)
  IN IF Total(best, Len(h)) > 200 * Len(h) THEN SmoothedEmotions[best] ELSE "neutral"
\* C22: emotionHistory never holds more than historySize readings; a tick
\* appends the current reading and leaves the most recent historySize ones,
\* and the dominant emotion a tick sets is the one of the average of the
\* history
HistoryBounded ==
  [][/\ Len(morphcast'.emotionHistory) <= historySize
     /\ morphcast'.budget # morphcast.budget =>
          morphcast'.emotionHistory =
            MostRecent(Append(morphcast.emotionHistory, morphcast'.currentEmotions))
     /\ (\E err \in BOOLEAN : LoopResumes(err)) =>
          morphcast'.dominantEmotion = DominantOf(morphcast'.emotionHistory)]_vars
\* the eleventh tick has discarded the oldest reading and has set the
\* dominant emotion
HistoryBoundedWitness ==
  /\ morphcast.budget = 0
  /\ Len(morphcast.emotionHistory) = historySize
  /\ morphcast.timers > 0

\* C24: while no CY_FACE_EMOTION_RESULT has been handled, every tick runs
\* simulateEmotions(), which changes simulationState.changeCounter
SimulationOnEveryTick ==
  [][(morphcast'.budget # morphcast.budget /\ ~morphcast.eventSeen) =>
       morphcast'.simulationState # morphcast.simulationState]_vars

\* C27: while the service is analysing, at most one loop is live: one
\* pending timer or one suspended tick
AtMostOneLoop ==
  morphcast.isAnalyzing => morphcast.timers + Len(morphcast.suspended) <= 1

\* C28: isAnalyzing implies isInitialized, and startAnalysis() on a service
\* that is not initialised throws 'MorphCast not initialized' and leaves
\* isAnalyzing false
AnalyzingOnlyInitialized ==
  [][/\ morphcast'.isAnalyzing => morphcast'.isInitialized
     /\ (~morphcast.isInitialized /\ \E rnd \in 0..1 : ServiceCall("startAnalysis", rnd))
        => /\ morphcast'.out.thrown = "MorphCast not initialized"
           /\ ~morphcast'.isAnalyzing]_vars
\* startAnalysis() has thrown on a service that cleanup() had left
\* uninitialised
AnalyzingOnlyInitializedWitness ==
  /\ morphcast.out.thrown = "MorphCast not initialized"
  /\ ~morphcast.isInitialized
  /\ ~morphcast.isAnalyzing
  /\ morphcast.stream = FALSE
  /\ morphcast.listeners

\* C29: onEmotionUpdate is not invoked between the return of stopAnalysis()
\* or cleanup() and the next call of startAnalysis()
NoUpdateAfterStop ==
  [][morphcast'.out.notified => ~morphcast.stopped]_vars

\* C30: when handleStopAnalysis() has run while a call of
\* handleStartAnalysis() was suspended and both have finished, no camera
\* stream runs, the service holds no stream and is not analysing, and
\* isMoodAnalyzing is false
StopNotUndone ==
  (controller.stopDuringStart /\ controller.start = "idle" /\ controller.stop = "idle")
    => /\ morphcast.live = 0
       /\ ~morphcast.stream
       /\ ~(morphcast.isInitialized /\ morphcast.isAnalyzing)
       /\ ~controller.isMoodAnalyzing

\* ---- the page under the scheduling of the browser ----------------------
\* a promise that is pending settles, a continuation that is queued runs,
\* and the load of the SDK script ends in onload or onerror
AnalysisLive ==
  /\ AnalysisSpec
  /\ WF_vars(\E ok \in BOOLEAN : InitializeResumes(ok))
  /\ WF_vars(\E ok \in BOOLEAN : SdkLoaded(ok))
  /\ WF_vars(\E rnd \in 0..1 : StartResumes(rnd))
  /\ WF_vars(StopResumes)
  /\ WF_vars(\E err \in BOOLEAN : LoopResumes(err))

\* C25: once initialize() has resolved in a call of handleStartAnalysis()
\* and the SDK has failed to load, the call finishes
StartFinishes ==
  (controller.start = "morphCastReady" /\ morphcast.sdk = "failed")
    ~> (controller.start = "idle")

====
